---------------------------- MODULE Spec2Model ----------------------------
(***************************************************************************)
(* A model of evm-executor-rs: the BlockBuilder (block_builder.rs) over    *)
(* the Ethereum engine (engines.rs), and the proof of execution (poe.rs).  *)
(*                                                                         *)
(* The StateDB, the transaction executor and the cryptographic primitives  *)
(* are collaborators whose code is not in the source tree; they are        *)
(* modelled by their contracts, small enough to enumerate.                 *)
(***************************************************************************)
EXTENDS Integers, Sequences, FiniteSets, TLC

(***************************************************************************)
(* Bounds and input domains                                                *)
(***************************************************************************)

\* The number of calls made on one builder.
MaxCalls == 5

\* The largest number of signatures put on one Poe.
MaxSigns == 2

\* The longest list of per-block Poes handed to Poe::batch.
MaxPoes == 3

Accounts == {"a", "b"}

\* header.miner of the header under construction.
HeaderMiner == "b"

\* The gas limits of the headers a builder is constructed with.
HeaderGasLimits == {5}

\* eth_types::gwei(): wei per gwei.
Gwei == 1000000000

\* Balances stay at or below this (the model's integers are 32 bits wide).
MaxBalance == 2 * Gwei + 100

\* The transactions offered to commit: sender, nonce, gas limit, value; the
\* recipient is the other account.
Txs ==
    {[sender |-> s, nonce |-> n, gas_limit |-> p[1], value |-> p[2]] :
        s \in Accounts, n \in {0, 1}, p \in {<<2, 1>>, <<3, 0>>}}

Recipient(tx) == IF tx.sender = "a" THEN "b" ELSE "a"

\* The withdrawal lists offered to withdrawal().
Wd(addr, amount) == [address |-> addr, amount |-> amount]

WithdrawalLists ==
    {<<Wd("b", 1)>>, <<Wd("a", 1), Wd("a", 1)>>}

(***************************************************************************)
(* Sequences                                                               *)
(***************************************************************************)

\* Vec::truncate(n): keeps the first n elements, no effect when n >= len.
truncate(v, n) == IF n >= Len(v) THEN v ELSE SubSeq(v, 1, n)

\* Sum of gas_used over a receipts vector.
RECURSIVE SumGasUsed(_)
SumGasUsed(rs) == IF rs = <<>> THEN 0 ELSE rs[1].gas_used + SumGasUsed(Tail(rs))

\* u64::saturating_sub
saturating_sub(x, y) == IF x >= y THEN x - y ELSE 0

(***************************************************************************)
(* StateDB: account nonces and balances.  The state root is a hash of the  *)
(* whole state; revert(root) makes the state with that root current.       *)
(***************************************************************************)

InitStateDB == [nonce |-> [x \in Accounts |-> 0], balance |-> [x \in Accounts |-> IF x = "a" THEN 4 ELSE 1]]

\* StateDB::flush: the root of the current state.
StateRoot(db) == <<"root", db.nonce["a"], db.nonce["b"], db.balance["a"], db.balance["b"]>>

\* StateDB::revert(state_root): the state whose root is state_root.
statedb_revert(db, state_root) ==
    [nonce |-> [x \in Accounts |-> IF x = "a" THEN state_root[2] ELSE state_root[3]],
     balance |-> [x \in Accounts |-> IF x = "a" THEN state_root[4] ELSE state_root[5]]]

\* StateDB::add_balance
add_balance(db, addr, amount) == [db EXCEPT !.balance[addr] = @ + amount]

(***************************************************************************)
(* TxExecutor::execute (tx_executor.rs is not in the source tree; modelled *)
(* from section 4.3 of the specification).  The effective gas price is 1   *)
(* and the block base fee 0.  A failed execution leaves the state as it    *)
(* was.                                                                    *)
(***************************************************************************)

ExecErr(e) == [ok |-> FALSE, err |-> e]

\* Gas the interpreter needs for tx on db: 1 intrinsic, 1 per unit of value
\* moved, 1 more when the recipient's balance is 0 (a new account).
GasNeeded(tx, db) == 1 + tx.value + (IF db.balance[Recipient(tx)] = 0 THEN 1 ELSE 0)

TxExecutor_execute(tx, miner, db) ==
    LET caller == tx.sender
        expect == db.nonce[caller]
        need == GasNeeded(tx, db)
        success == need <= tx.gas_limit
        used_gas == IF success THEN need ELSE tx.gas_limit
        moved == IF success THEN tx.value ELSE 0
        db1 == [db EXCEPT !.nonce[caller] = @ + 1, !.balance[caller] = @ - used_gas - moved]
        db2 == [db1 EXCEPT !.balance[Recipient(tx)] = @ + moved]
        db3 == [db2 EXCEPT !.balance[miner] = @ + used_gas]
    IN  IF tx.nonce < expect THEN ExecErr([kind |-> "NonceTooLow", expect |-> expect, got |-> tx.nonce])
        ELSE IF tx.nonce > expect THEN ExecErr([kind |-> "NonceTooHigh", expect |-> expect, got |-> tx.nonce])
        ELSE IF db.balance[caller] < tx.gas_limit + tx.value THEN ExecErr([kind |-> "InsufficientFunds"])
        ELSE [ok |-> TRUE, result |-> [success |-> success, used_gas |-> used_gas], statedb |-> db3]

(***************************************************************************)
(* Engine: Ethereum (engines.rs)                                           *)
(***************************************************************************)

\* tx.hash()
TxHash(tx) == <<"txhash", tx.sender, tx.nonce, tx.gas_limit, tx.value>>

\* Ethereum::tx_context leaves no_gas_fee as execute_tx set it: false.
no_gas_fee == FALSE

\* Ethereum::build_receipt.  The cumulative_gas_used handed over by commit is
\* not used: the receipt's cumulative gas is header.gas_used + used_gas.
build_receipt(cumulative_gas_used, result, tx_idx, tx, hdr) ==
    [status |-> IF result.success THEN 1 ELSE 0,
     transaction_hash |-> TxHash(tx),
     transaction_index |-> tx_idx,
     gas_used |-> result.used_gas,
     cumulative_gas_used |-> hdr.gas_used + result.used_gas]

\* Ethereum::process_withdrawals
RECURSIVE process_withdrawals(_, _)
process_withdrawals(db, list) ==
    IF list = <<>> THEN db
    ELSE process_withdrawals(add_balance(db, list[1].address, list[1].amount * Gwei), Tail(list))

\* Ethereum::finalize_block: Block::new(header, txs, &receipts, withdrawals)
finalize_block(hdr, ts, rs, wds) ==
    [header |-> hdr, transactions |-> ts, receipts |-> rs, withdrawals |-> wds]

(***************************************************************************)
(* BlockBuilder (block_builder.rs)                                         *)
(***************************************************************************)

None == [some |-> FALSE, list |-> <<>>]
Some(l) == [some |-> TRUE, list |-> l]

\* BlockBuilder::new
BlockBuilder_new(hdr, db) ==
    [header |-> hdr, statedb |-> db, cumulative_gas_used |-> 0,
     txs |-> <<>>, receipts |-> <<>>, withdrawals |-> None]

\* refund_gas with the subtraction left out.
refund_gas_nothing(cumulative, gas) == cumulative

\* BlockBuilder::refund_gas
refund_gas(cumulative, gas) == cumulative - gas

\* BlockBuilder::cost_gas
cost_gas(cumulative, gas) == cumulative + gas

\* A slice v[n..] that takes every start.
slice_from_any(v, n) == TRUE

\* Whether the slice v[n..] exists; a start beyond the length panics
\* ("range start index n out of range for slice of length len").
slice_from(v, n) == n <= Len(v)

\* The refund loop of truncate_and_revert over receipts[tx_len..].
RECURSIVE refund_all(_, _)
refund_all(cumulative, rs) ==
    IF rs = <<>> THEN cumulative ELSE refund_all(refund_gas(cumulative, rs[1].gas_used), Tail(rs))

\* truncate_and_revert without the revert of the StateDB.
truncate_without_revert(self, tx_len, state_root) ==
    [self EXCEPT
        !.cumulative_gas_used = refund_all(@, SubSeq(self.receipts, tx_len + 1, Len(self.receipts))),
        !.txs = truncate(@, tx_len),
        !.receipts = truncate(@, tx_len)]

\* truncate_and_revert that truncates the receipts and leaves the txs.
truncate_receipts_only(self, tx_len, state_root) ==
    [self EXCEPT
        !.cumulative_gas_used = refund_all(@, SubSeq(self.receipts, tx_len + 1, Len(self.receipts))),
        !.receipts = truncate(@, tx_len),
        !.statedb = statedb_revert(@, state_root)]

\* BlockBuilder::truncate_and_revert, for tx_len <= receipts.len() (beyond
\* it the slice receipts[tx_len..] panics).
truncate_and_revert(self, tx_len, state_root) ==
    [self EXCEPT
        !.cumulative_gas_used = refund_all(@, SubSeq(self.receipts, tx_len + 1, Len(self.receipts))),
        !.txs = truncate(@, tx_len),
        !.receipts = truncate(@, tx_len),
        !.statedb = statedb_revert(@, state_root)]

\* The gas pool check of execute_tx.
gas_pool_of(self) == saturating_sub(self.header.gas_limit, self.cumulative_gas_used)

\* execute_tx without the gas pool test.
execute_tx_unchecked(self, tx) ==
    LET r == TxExecutor_execute(tx, self.header.miner, self.statedb)
    IN  IF r.ok THEN r ELSE ExecErr([kind |-> "Execute", err |-> r.err])

\* execute_tx with the pool test off by one: a tx that takes the whole pool
\* is refused.
execute_tx_off_by_one(self, tx) ==
    LET gas_limit == tx.gas_limit
        gas_pool == gas_pool_of(self)
    IN  IF ~no_gas_fee /\ gas_pool <= gas_limit
        THEN ExecErr([kind |-> "NotEnoughGasLimit", gas_pool |-> gas_pool, gas_limit |-> gas_limit])
        ELSE LET r == TxExecutor_execute(tx, self.header.miner, self.statedb)
             IN  IF r.ok THEN r ELSE ExecErr([kind |-> "Execute", err |-> r.err])

\* BlockBuilder::execute_tx
execute_tx(self, tx) ==
    LET gas_limit == tx.gas_limit
        gas_pool == gas_pool_of(self)
    IN  IF ~no_gas_fee /\ gas_pool < gas_limit
        THEN ExecErr([kind |-> "NotEnoughGasLimit", gas_pool |-> gas_pool, gas_limit |-> gas_limit])
        ELSE LET r == TxExecutor_execute(tx, self.header.miner, self.statedb)
             IN  IF r.ok THEN r ELSE ExecErr([kind |-> "Execute", err |-> r.err])

\* commit that pushes the transaction before it looks at the result.
commit_pushes_on_error(self, tx) ==
    LET r == execute_tx(self, tx) IN
    IF r.ok
    THEN LET receipt == build_receipt(self.cumulative_gas_used, r.result, Len(self.txs), tx, self.header)
         IN  [self |-> [self EXCEPT !.statedb = r.statedb,
                                    !.cumulative_gas_used = cost_gas(@, r.result.used_gas),
                                    !.receipts = Append(@, receipt),
                                    !.txs = Append(@, tx)],
              ret |-> [kind |-> "Ok", receipt |-> receipt]]
    ELSE [self |-> [self EXCEPT !.txs = Append(@, tx)], ret |-> [kind |-> "Err", err |-> r.err]]

\* BlockBuilder::commit: the builder after the call and what the call returns.
commit(self, tx) ==
    LET r == execute_tx(self, tx) IN
    IF r.ok
    THEN LET receipt == build_receipt(self.cumulative_gas_used, r.result, Len(self.txs), tx, self.header)
         IN  [self |-> [self EXCEPT !.statedb = r.statedb,
                                    !.cumulative_gas_used = cost_gas(@, r.result.used_gas),
                                    !.receipts = Append(@, receipt),
                                    !.txs = Append(@, tx)],
              ret |-> [kind |-> "Ok", receipt |-> receipt]]
    ELSE [self |-> self, ret |-> [kind |-> "Err", err |-> r.err]]

\* BlockBuilder::flush_state; flush_ok is whether StateDB::flush succeeds.
flush_state(self, flush_ok) ==
    IF flush_ok THEN [kind |-> "Ok", state_root |-> StateRoot(self.statedb)]
    ELSE [kind |-> "Err", err |-> [kind |-> "Flush"]]

\* finalize_header that takes gas_used from the header's gas limit.
finalize_header_gas_limit(self, flush_ok) ==
    LET flushed == flush_state(self, flush_ok)
        done == [self EXCEPT !.header.state_root = flushed.state_root,
                             !.header.gas_used = self.header.gas_limit]
    IN  IF flushed.kind = "Ok"
        THEN [self |-> done, ret |-> [kind |-> "Ok", header |-> done.header]]
        ELSE [self |-> self, ret |-> flushed]

\* BlockBuilder::finalize_header: Ok(&self.header), or the flush error.
finalize_header(self, flush_ok) ==
    LET flushed == flush_state(self, flush_ok)
        done == [self EXCEPT !.header.state_root = flushed.state_root,
                             !.header.gas_used = self.cumulative_gas_used]
    IN  IF flushed.kind = "Ok"
        THEN [self |-> done, ret |-> [kind |-> "Ok", header |-> done.header]]
        ELSE [self |-> self, ret |-> flushed]

\* BlockBuilder::finalize: the Block of finalize_block, or the error of
\* finalize_header.
finalize(self, flush_ok) ==
    LET r == finalize_header(self, flush_ok) IN
    IF r.ret.kind = "Ok"
    THEN [self |-> r.self,
          ret |-> [kind |-> "Ok",
                   block |-> finalize_block(r.self.header, r.self.txs, r.self.receipts, r.self.withdrawals)]]
    ELSE r

\* BlockBuilder::withdrawal that adds the list to the one it holds.
withdrawal_appends(self, list) ==
    [self EXCEPT !.statedb = process_withdrawals(@, list), !.withdrawals = Some(@.list \o list)]

\* BlockBuilder::withdrawal
withdrawal(self, list) ==
    [self EXCEPT !.statedb = process_withdrawals(@, list), !.withdrawals = Some(list)]


(***************************************************************************)
(* Prefetch (block_builder.rs, BlockBuilder::prefetch).  The StateDB keeps *)
(* which accounts, codes and storage slots it holds locally.               *)
(***************************************************************************)

Keys == {"k1", "k2"}

AccessTuple(addr, keys) == [address |-> addr, storage_keys |-> keys]

AllPresent == [accounts |-> Accounts, codes |-> Accounts, storages |-> Accounts \X Keys]

\* StateDB::check_missing_state(address, storage_keys)
check_missing_state(local, address, storage_keys) ==
    [account |-> address \notin local.accounts,
     code |-> address \notin local.codes,
     storages |-> {k \in storage_keys : <<address, k>> \notin local.storages}]

\* The FetchState for one access tuple that asks for every declared key.
fetch_of_declared(item, missing_state) ==
    IF missing_state.account
    THEN [code |-> {item.address}, access_list |-> {item}]
    ELSE [code |-> IF missing_state.code THEN {item.address} ELSE {},
          access_list |-> {item}]

\* The FetchState built for one access tuple (the body of the for loop).
fetch_of(item, missing_state) ==
    IF missing_state.account
    THEN [code |-> {item.address}, access_list |-> {item}]
    ELSE [code |-> IF missing_state.code THEN {item.address} ELSE {},
          access_list |-> {[item EXCEPT !.storage_keys = missing_state.storages]}]

\* FetchState::get_addr: the address of the access tuple, else of the code.
get_addr(fetch) ==
    IF fetch.access_list # {} THEN {t.address : t \in fetch.access_list} ELSE fetch.code

\* FetchState::is_match
is_match(fetch, other) == get_addr(fetch) = get_addr(other)

\* FetchState::merge: the key sets united, the code flag or-ed.
merge(old, fetch) ==
    LET addr == CHOOSE x \in get_addr(old) : TRUE
        keys == UNION {t.storage_keys : t \in old.access_list \cup fetch.access_list}
    IN  [code |-> old.code \cup fetch.code, access_list |-> {AccessTuple(addr, keys)}]

\* out after one more FetchState that is pushed whatever out holds.
push_always(out, fetch) == Append(out, fetch)

\* out after one more FetchState: merged into the first match, else pushed.
RECURSIVE push_or_merge(_, _)
push_or_merge(out, fetch) ==
    IF out = <<>> THEN <<fetch>>
    ELSE IF is_match(fetch, out[1]) THEN <<merge(out[1], fetch)>> \o Tail(out)
    ELSE <<out[1]>> \o push_or_merge(Tail(out), fetch)

\* The for loop of prefetch over list, from batch out; check_missing_state
\* fails at the tuple with index fail_at (0 based), if there is one.
RECURSIVE prefetch_loop(_, _, _, _, _)
prefetch_loop(local, list, idx, fail_at, out) ==
    IF idx >= Len(list) THEN [ok |-> TRUE, out |-> out]
    ELSE IF idx = fail_at THEN [ok |-> FALSE, out |-> out]
    ELSE LET item == list[idx + 1]
             fetch == fetch_of(item, check_missing_state(local, item.address, item.storage_keys))
         IN  prefetch_loop(local, list, idx + 1, fail_at,
                           IF get_addr(fetch) # {} THEN push_or_merge(out, fetch) ELSE out)

\* StateDB::apply_states on what the prefetcher returned for the batch.
apply_states(local, out) ==
    [accounts |-> local.accounts \cup UNION {get_addr(out[i]) : i \in 1..Len(out)},
     codes |-> local.codes \cup UNION {out[i].code : i \in 1..Len(out)},
     storages |-> local.storages \cup
        UNION {{<<t.address, k>> : k \in t.storage_keys} : t \in UNION {out[i].access_list : i \in 1..Len(out)}}]

\* BlockBuilder::prefetch that hands the batch built so far to the prefetcher
\* and to apply_states before it returns an error of check_missing_state.
prefetch_partial(local, list, fail_at, prefetcher_ok) ==
    LET l == prefetch_loop(local, list, 0, fail_at, <<>>) IN
    IF ~l.ok
    THEN [local |-> apply_states(local, l.out), ret |-> [kind |-> "Err", err |-> [kind |-> "State"]],
          fetched |-> <<l.out>>, applied |-> <<l.out>>]
    ELSE IF Len(l.out) = 0 THEN [local |-> local, ret |-> [kind |-> "Ok", count |-> 0], fetched |-> <<>>, applied |-> <<>>]
    ELSE IF ~prefetcher_ok
         THEN [local |-> local, ret |-> [kind |-> "Err", err |-> [kind |-> "Prefetcher"]], fetched |-> <<l.out>>, applied |-> <<>>]
         ELSE [local |-> apply_states(local, l.out), ret |-> [kind |-> "Ok", count |-> Len(l.out)],
               fetched |-> <<l.out>>, applied |-> <<l.out>>]

\* BlockBuilder::prefetch: what the StateDB holds afterwards, the result, and
\* the batches handed to StatePrefetcher::prefetch and to apply_states.
prefetch(local, list, fail_at, prefetcher_ok) ==
    LET l == prefetch_loop(local, list, 0, fail_at, <<>>) IN
    IF ~l.ok THEN [local |-> local, ret |-> [kind |-> "Err", err |-> [kind |-> "State"]], fetched |-> <<>>, applied |-> <<>>]
    ELSE IF Len(l.out) = 0 THEN [local |-> local, ret |-> [kind |-> "Ok", count |-> 0], fetched |-> <<>>, applied |-> <<>>]
    ELSE IF ~prefetcher_ok
         THEN [local |-> local, ret |-> [kind |-> "Err", err |-> [kind |-> "Prefetcher"]], fetched |-> <<l.out>>, applied |-> <<>>]
         ELSE [local |-> apply_states(local, l.out), ret |-> [kind |-> "Ok", count |-> Len(l.out)],
               fetched |-> <<l.out>>, applied |-> <<l.out>>]

\* The longest list of access tuples handed to prefetch.
MaxTuples == 2

\* The access tuples: an address and the storage keys declared for it.
AccessTuples == {AccessTuple(addr, keys) : addr \in Accounts, keys \in SUBSET Keys}

\* The lists of at most n access tuples.
RECURSIVE TupleLists(_)
TupleLists(n) ==
    IF n = 0 THEN {<<>>}
    ELSE LET shorter == TupleLists(n - 1) IN shorter \cup {Append(l, t) : l \in shorter, t \in AccessTuples}

\* What a StateDB may hold when a builder is made over it: of "a" nothing,
\* the account, or the account and its code, with any of its slots; of "b"
\* nothing or all.
LocalStates ==
    {[accounts |-> acc \cup b, codes |-> code \cup b, storages |-> {<<"a", k>> : k \in slots} \cup (b \X Keys)] :
        acc \in {{}, {"a"}}, code \in {{}, {"a"}}, slots \in SUBSET Keys, b \in {{}, {"b"}}}

\* The access lists the builder specification offers to prefetch.
BuilderPrefetchLists ==
    {<<AccessTuple("a", {})>>}

(***************************************************************************)
(* State                                                                   *)
(***************************************************************************)

VARIABLES
    header,               \* BlockBuilder.header
    statedb,              \* BlockBuilder.statedb: nonces and balances
    present,              \* BlockBuilder.statedb: what is held locally
    cumulative_gas_used,  \* BlockBuilder.cumulative_gas_used
    txs,                  \* BlockBuilder.txs
    receipts,             \* BlockBuilder.receipts
    withdrawals,          \* BlockBuilder.withdrawals
    block,                \* the Block finalize returned, once it has
    op,                   \* the name of the last call made on the builder
    ret,                  \* what that call returned
    snaps,                \* snaps[i + 1]: the builder right after its i-th commit
    chain,                \* from which commit on the state is the work of commits alone
    replay,               \* the builder before the last truncate, while its txs are committed again
                          \* (and the header finalized) and nothing else is done
    calls,                \* how many calls were made on the builder
    external,             \* the arguments of the last prefetch and the calls it made to the prefetcher and to apply_states
    poe,                  \* a Poe
    signs,                \* how many times it was signed
    signed_by,            \* the chain id and key of the last sign call on it
    recovered,            \* what the last recover call on it returned
    block_poes,           \* a list of per-block Poes
    batch_ret,            \* what Poe::batch returned for that list
    pob,                  \* a Pob
    pob_ret,              \* what the last state_hash call on it returned
    pob_first,            \* what the first state_hash call on it returned
    handle,               \* the PrecompileHandle of the call the EVM is at
    exec_ret,             \* what PrecompileSet::execute returned for it and the calls it made
    is_ret,               \* what PrecompileSet::is_precompile answered for its address
    calc                  \* the last call of Ethereum::calc_gas_limit or calc_base_fee: its arguments and result

builderVars == <<header, statedb, present, cumulative_gas_used, txs, receipts, withdrawals, block,
                 op, ret, snaps, chain, replay, calls, external>>

poeVars == <<poe, signs, signed_by, recovered>>

batchVars == <<block_poes, batch_ret>>

pobVars == <<pob, pob_ret, pob_first>>

pcVars == <<handle, exec_ret, is_ret>>

\* The state of the library parts that are no part of a builder or a Poe.
engineVars == <<calc>>

libraryVars == <<pobVars, pcVars, engineVars>>

vars == <<builderVars, poeVars, batchVars, libraryVars>>

\* The builder as one value.
Self ==
    [header |-> header, statedb |-> statedb, cumulative_gas_used |-> cumulative_gas_used,
     txs |-> txs, receipts |-> receipts, withdrawals |-> withdrawals]

SetSelf(s) ==
    /\ header' = s.header
    /\ statedb' = s.statedb
    /\ cumulative_gas_used' = s.cumulative_gas_used
    /\ txs' = s.txs
    /\ receipts' = s.receipts
    /\ withdrawals' = s.withdrawals

NoBlock == [some |-> FALSE]
NoReplay == [active |-> FALSE]
NoCalls == [list |-> <<>>, fail_at |-> -1, prefetcher_ok |-> TRUE, fetched |-> <<>>, applied |-> <<>>]

\* BlockBuilder::new over a StateDB that holds local of the state.
BuilderInitOn(local) ==
    /\ \E gl \in HeaderGasLimits :
         header = [gas_limit |-> gl, gas_used |-> 0, state_root |-> <<"root">>, miner |-> HeaderMiner]
    /\ statedb = InitStateDB
    /\ present = local
    /\ cumulative_gas_used = 0
    /\ txs = <<>>
    /\ receipts = <<>>
    /\ withdrawals = None
    /\ block = NoBlock
    /\ op = "new"
    /\ ret = [kind |-> "Ok"]
    /\ snaps = <<BlockBuilder_new(header, InitStateDB)>>
    /\ chain = [from |-> 0, cur |-> TRUE]
    /\ replay = NoReplay
    /\ external = NoCalls
    /\ calls = 0

BuilderInit == BuilderInitOn([accounts |-> {}, codes |-> {}, storages |-> {}])

\* The builder exists until finalize consumes it.
Alive == ~block.some /\ calls < MaxCalls

Min(x, y) == IF x <= y THEN x ELSE y


(***************************************************************************)
(* The calls on a builder                                                  *)
(***************************************************************************)

\* commit(tx)
Commit(tx) ==
    LET r == commit(Self, tx)
        ok == r.ret.kind = "Ok"
        expected == replay.active /\ Len(txs) < Len(replay.txs) /\ tx = replay.txs[Len(txs) + 1]
    IN  /\ Alive
        /\ SetSelf(r.self)
        /\ calls' = calls + 1
        /\ ret' = r.ret
        /\ op' = "commit"
        /\ snaps' = IF ok THEN Append(snaps, r.self) ELSE snaps
        /\ chain' = IF ok /\ ~chain.cur THEN [from |-> Len(txs) + 1, cur |-> TRUE] ELSE chain
        /\ replay' = IF expected THEN replay ELSE NoReplay
        /\ external' = NoCalls
        /\ UNCHANGED <<present, block, poeVars, batchVars, libraryVars>>

\* truncate_and_revert(tx_len, state_root) with tx_len <= receipts.len(); the
\* root is one the state had right after some commit.
TruncateAndRevert(tx_len, state_root) ==
    LET s == truncate_and_revert(Self, tx_len, state_root)
        matches == state_root = StateRoot(snaps[tx_len + 1].statedb)
    IN  /\ Alive
        /\ tx_len <= Len(receipts)
        /\ SetSelf(s)
        /\ calls' = calls + 1
        /\ ret' = [kind |-> "Ok"]
        /\ op' = "truncate_and_revert"
        /\ snaps' = SubSeq(snaps, 1, tx_len + 1)
        /\ chain' = [from |-> Min(chain.from, tx_len), cur |-> matches]
        /\ replay' = IF chain.cur /\ chain.from <= tx_len /\ matches
                     THEN [active |-> TRUE, tx_len |-> tx_len, txs |-> txs, state_root |-> StateRoot(statedb),
                           cumulative_gas_used |-> cumulative_gas_used, receipts_len |-> Len(receipts)]
                     ELSE NoReplay
        /\ external' = NoCalls
        /\ UNCHANGED <<present, block, poeVars, batchVars, libraryVars>>

\* truncate_and_revert(tx_len, state_root) with tx_len > receipts.len(): the
\* slice receipts[tx_len..] is taken first.
TruncateBeyond(tx_len, state_root) ==
    LET in_range == slice_from(receipts, tx_len)
        s == IF in_range THEN truncate_and_revert(Self, tx_len, state_root) ELSE Self
    IN  /\ Alive
        /\ tx_len > Len(receipts)
        /\ SetSelf(s)
        /\ calls' = calls + 1
        /\ ret' = IF in_range THEN [kind |-> "Ok"]
                  ELSE [kind |-> "Panic", start |-> tx_len, len |-> Len(receipts)]
        /\ op' = "truncate_and_revert"
        /\ external' = NoCalls
        /\ UNCHANGED <<snaps, chain, replay, present, block, poeVars, batchVars, libraryVars>>

\* finalize_header()
FinalizeHeader(flush_ok) ==
    LET r == finalize_header(Self, flush_ok)
    IN  /\ Alive
        /\ SetSelf(r.self)
        /\ calls' = calls + 1
        /\ ret' = r.ret
        /\ op' = "finalize_header"
        /\ external' = NoCalls
        /\ UNCHANGED <<present, block, snaps, chain, replay, poeVars, batchVars, libraryVars>>

\* finalize(): consumes the builder.
Finalize(flush_ok) ==
    LET r == finalize(Self, flush_ok)
    IN  /\ Alive
        /\ SetSelf(r.self)
        /\ calls' = calls + 1
        /\ ret' = r.ret
        /\ block' = [some |-> TRUE]
        /\ op' = "finalize"
        /\ external' = NoCalls
        /\ UNCHANGED <<present, snaps, chain, replay, poeVars, batchVars, libraryVars>>

\* What a withdrawal list credits to account x, in wei.
RECURSIVE Credit(_, _)
Credit(list, x) ==
    IF list = <<>> THEN 0
    ELSE (IF list[1].address = x THEN list[1].amount * Gwei ELSE 0) + Credit(Tail(list), x)

\* withdrawal(list)
Withdrawal(list) ==
    LET s == withdrawal(Self, list)
    IN  /\ Alive
        /\ \A x \in Accounts : statedb.balance[x] <= MaxBalance - Credit(list, x)
        /\ SetSelf(s)
        /\ calls' = calls + 1
        /\ ret' = [kind |-> "Ok"]
        /\ op' = "withdrawal"
        /\ chain' = [chain EXCEPT !.cur = @ /\ s.statedb = statedb]
        /\ replay' = NoReplay
        /\ external' = NoCalls
        /\ UNCHANGED <<present, block, snaps, poeVars, batchVars, libraryVars>>

\* prefetch(list)
Prefetch(list, fail_at, prefetcher_ok) ==
    LET r == prefetch(present, list, fail_at, prefetcher_ok)
    IN  /\ Alive
        /\ present' = r.local
        /\ calls' = calls + 1
        /\ ret' = r.ret
        /\ external' = [list |-> list, fail_at |-> fail_at, prefetcher_ok |-> prefetcher_ok,
                        fetched |-> r.fetched, applied |-> r.applied]
        /\ op' = "prefetch"
        /\ replay' = NoReplay
        /\ UNCHANGED <<header, statedb, cumulative_gas_used, txs, receipts, withdrawals, block, snaps, chain, poeVars, batchVars, libraryVars>>

(***************************************************************************)
(* Poe (poe.rs).  Hashes are small numbers.  A secp256k1 signature is the  *)
(* key and the message it was made over; recovering a public key from it   *)
(* over another message yields a key that is nobody's.                     *)
(***************************************************************************)

Hashes == {0, 1}

ChainIds == {1, 2}

PrivateKeys == {"k1", "k2"}

\* vec![0_u8; 65]
ZeroSignature == [key |-> "zero", data |-> <<>>]

\* Secp256k1PrivateKey::sign
prvkey_sign(prvkey, data) == [key |-> prvkey, data |-> data]

\* crypto::secp256k1_recover_pubkey
secp256k1_recover_pubkey(sig, data) ==
    IF sig = ZeroSignature THEN "invalid"
    ELSE IF sig.data = data THEN sig.key
    ELSE "unrelated"

\* eth_accountid(): the Ethereum address of a public key.
eth_accountid(pubkey) == <<"address", pubkey>>

\* crypto::keccak_encode over the hashes fed to it, in order.
keccak_encode(chunks) == <<"keccak", chunks>>

\* SH256::default()
SH256_default == 0

\* Poe::single_block
single_block(state_hash, prev_state_root, new_state_root, withdrawal_root) ==
    [batch_hash |-> SH256_default,
     state_hash |-> state_hash,
     prev_state_root |-> prev_state_root,
     new_state_root |-> new_state_root,
     withdrawal_root |-> withdrawal_root,
     signature |-> ZeroSignature]

\* Poe::default
Poe_default ==
    [batch_hash |-> SH256_default,
     state_hash |-> SH256_default,
     prev_state_root |-> SH256_default,
     new_state_root |-> SH256_default,
     withdrawal_root |-> SH256_default,
     signature |-> ZeroSignature]

\* Option<SH256>
NoRoot == [some |-> FALSE, root |-> 0]
SomeRoot(r) == [some |-> TRUE, root |-> r]

\* The continuity test against the wrong field of the block.
root_mismatch_new(new_state_root, p) == new_state_root.some /\ new_state_root.root # p.new_state_root

\* The continuity test of the loop of Poe::batch: the root of the block
\* before is known and is not this block's prev_state_root.
root_mismatch(new_state_root, p) == new_state_root.some /\ new_state_root.root # p.prev_state_root

\* The for loop of Poe::batch from the block with index idx (0 based) on.
RECURSIVE batch_loop(_, _, _, _, _)
batch_loop(block_poes_, idx, prev_state_root, new_state_root, withdrawal_root) ==
    IF idx >= Len(block_poes_)
    THEN [ok |-> TRUE, prev_state_root |-> prev_state_root, new_state_root |-> new_state_root,
          withdrawal_root |-> withdrawal_root]
    ELSE LET p == block_poes_[idx + 1]
             prev == IF ~prev_state_root.some THEN SomeRoot(p.prev_state_root) ELSE prev_state_root
         IN  IF root_mismatch(new_state_root, p)
             THEN [ok |-> FALSE,
                   err |-> [msg |-> "unexpected state_root in poe", idx |-> idx,
                            want |-> new_state_root.root, got |-> p.prev_state_root]]
             ELSE batch_loop(block_poes_, idx + 1, prev, SomeRoot(p.new_state_root), SomeRoot(p.withdrawal_root))

\* Poe::batch that carries the signature of the last block over.
batch_keeps_signature(batch_hash, block_poes_) ==
    IF Len(block_poes_) < 1
    THEN [kind |-> "Err", err |-> [msg |-> "length of block poe is zero", idx |-> -1, want |-> 0, got |-> 0]]
    ELSE LET l == batch_loop(block_poes_, 0, NoRoot, NoRoot, NoRoot) IN
         IF ~l.ok THEN [kind |-> "Err", err |-> l.err]
         ELSE [kind |-> "Ok",
               poe |-> [batch_hash |-> batch_hash,
                        state_hash |-> keccak_encode([i \in 1..Len(block_poes_) |-> block_poes_[i].state_hash]),
                        prev_state_root |-> l.prev_state_root.root,
                        new_state_root |-> l.new_state_root.root,
                        withdrawal_root |-> l.withdrawal_root.root,
                        signature |-> block_poes_[Len(block_poes_)].signature]]

\* Poe::batch
batch(batch_hash, block_poes_) ==
    IF Len(block_poes_) < 1
    THEN [kind |-> "Err", err |-> [msg |-> "length of block poe is zero", idx |-> -1, want |-> 0, got |-> 0]]
    ELSE LET l == batch_loop(block_poes_, 0, NoRoot, NoRoot, NoRoot) IN
         IF ~l.ok THEN [kind |-> "Err", err |-> l.err]
         ELSE [kind |-> "Ok",
               poe |-> [batch_hash |-> batch_hash,
                        state_hash |-> keccak_encode([i \in 1..Len(block_poes_) |-> block_poes_[i].state_hash]),
                        prev_state_root |-> l.prev_state_root.root,
                        new_state_root |-> l.new_state_root.root,
                        withdrawal_root |-> l.withdrawal_root.root,
                        signature |-> ZeroSignature]]

\* Poe::sign_msg: the Solidity encoding of the chain id and the six fields.
sign_msg(self, chain_id) ==
    <<chain_id, self.batch_hash, self.state_hash, self.prev_state_root, self.new_state_root,
      self.withdrawal_root, self.signature>>

\* Poe::sign: signs sign_msg of the Poe as it is, its signature field included.
sign(self, chain_id, prvkey) ==
    [self EXCEPT !.signature = prvkey_sign(prvkey, sign_msg(self, chain_id))]

\* Poe::recover
recover(self, chain_id) ==
    LET tmp == [self EXCEPT !.signature = ZeroSignature]
        data == sign_msg(tmp, chain_id)
    IN  eth_accountid(secp256k1_recover_pubkey(self.signature, data))

NotSigned == [some |-> FALSE, chain_id |-> 0, prvkey |-> "zero"]
NotRecovered == [some |-> FALSE, chain_id |-> 0, address |-> <<>>]
NoBatch == [kind |-> "None"]

PoeInit ==
    /\ poe = Poe_default
    /\ signs = 0
    /\ signed_by = NotSigned
    /\ recovered = NotRecovered

BatchInit ==
    /\ block_poes = <<>>
    /\ batch_ret = NoBatch

(***************************************************************************)
(* Pob (pob.rs).  An MPT node is a byte string; Vec<HexBytes> is ordered   *)
(* as byte strings are: lexicographically.                                 *)
(***************************************************************************)

\* The longest mpt_nodes list a Pob is given.
MaxNodes == 3

\* The MPT nodes that occur.
Nodes == {<<1>>, <<2>>, <<1, 2>>}

NodeLists == UNION {[1..n -> Nodes] : n \in 0..MaxNodes}

\* Ord of byte strings: a < b.
RECURSIVE LexLess(_, _)
LexLess(a, b) ==
    IF b = <<>> THEN FALSE
    ELSE IF a = <<>> THEN TRUE
    ELSE IF a[1] # b[1] THEN a[1] < b[1]
    ELSE LexLess(Tail(a), Tail(b))

\* x put in its place in the ascending list v.
RECURSIVE SortedInsert(_, _)
SortedInsert(v, x) ==
    IF v = <<>> THEN <<x>>
    ELSE IF LexLess(x, v[1]) THEN <<x>> \o v
    ELSE <<v[1]>> \o SortedInsert(Tail(v), x)

\* Vec::sort_unstable: ascending, every element kept.
RECURSIVE sort_unstable(_)
sort_unstable(v) == IF v = <<>> THEN <<>> ELSE SortedInsert(sort_unstable(Tail(v)), v[1])

\* The bytes the closure of keccak_encode feeds to the hasher: the items one
\* after the other.
RECURSIVE Concat(_)
Concat(v) == IF v = <<>> THEN <<>> ELSE v[1] \o Concat(Tail(v))

\* crypto::keccak_hash of a node, as a number: the order of the hashes is not
\* the order of the nodes.
keccak_hash(node) ==
    IF node = <<1>> THEN 3 ELSE IF node = <<2>> THEN 1 ELSE 2

\* Option<SH256>
NoHash == [some |-> FALSE, hash |-> <<>>]
SomeHash(h) == [some |-> TRUE, hash |-> h]

\* PobData::default()
PobData_default ==
    [chain_id |-> 0, prev_state_root |-> SH256_default, block_hashes |-> {}, mpt_nodes |-> <<>>,
     codes |-> <<>>]

\* Pob::new
Pob_new(blk, data) == [block |-> blk, data |-> data, state_hash |-> NoHash]

\* BTreeMap::into_values of a map whose entries are the pairs <<key, value>>
\* of m: the values in the order of their keys.
RECURSIVE into_values(_)
into_values(m) ==
    IF m = {} THEN <<>>
    ELSE LET least == CHOOSE e \in m : \A f \in m : e[1] <= f[1]
         IN  <<least[2]>> \o into_values(m \ {least})

\* The nodes of one FetchStateResult, in the order from_proof meets them.
RECURSIVE StorageNodes(_)
StorageNodes(storage_proof) ==
    IF storage_proof = <<>> THEN <<>>
    ELSE storage_proof[1].proof \o StorageNodes(Tail(storage_proof))

RECURSIVE ProofNodes(_)
ProofNodes(states) ==
    IF states = <<>> THEN <<>>
    ELSE (IF states[1].acc.some
          THEN states[1].acc.account_proof \o StorageNodes(states[1].acc.storage_proof)
          ELSE <<>>) \o ProofNodes(Tail(states))

\* mpt_nodes.entry(hash).or_insert(node) for every node of the list.
RECURSIVE or_insert_all(_, _)
or_insert_all(m, nodes) ==
    IF nodes = <<>> THEN m
    ELSE or_insert_all(IF \E e \in m : e[1] = keccak_hash(nodes[1])
                       THEN m
                       ELSE m \cup {<<keccak_hash(nodes[1]), nodes[1]>>},
                       Tail(nodes))

\* Pob::from_proof
from_proof(chain_id, blk, prev_state_root, block_hashes, codes, states) ==
    Pob_new(blk,
            [chain_id |-> chain_id,
             prev_state_root |-> prev_state_root,
             block_hashes |-> block_hashes,
             mpt_nodes |-> into_values(or_insert_all({}, ProofNodes(states))),
             codes |-> into_values(codes)])

\* state_hash that computes the hash anew at every call.
state_hash_uncached(self) ==
    LET sorted == sort_unstable(self.data.mpt_nodes)
        hash == keccak_encode(Concat(sorted))
    IN  [self |-> [self EXCEPT !.data.mpt_nodes = sorted, !.state_hash = SomeHash(hash)],
         ret |-> hash]

\* Pob::state_hash: the Pob after the call and the hash returned.
state_hash(self) ==
    IF self.state_hash.some THEN [self |-> self, ret |-> self.state_hash.hash]
    ELSE LET sorted == sort_unstable(self.data.mpt_nodes)
             hash == keccak_encode(Concat(sorted))
         IN  [self |-> [self EXCEPT !.data.mpt_nodes = sorted, !.state_hash = SomeHash(hash)],
              ret |-> hash]

\* The blocks, and what besides the nodes a PobData is given.
Blocks == {"blk1", "blk2"}

CodeMaps == {{}, {<<2, "code2">>, <<1, "code1">>}}

PobDataRest ==
    {[chain_id |-> 1, prev_state_root |-> 0, block_hashes |-> {}, codes |-> <<>>],
     [chain_id |-> 2, prev_state_root |-> 1, block_hashes |-> {<<7, 1>>}, codes |-> <<"code1", "code2">>]}

PobDataInputs ==
    {[chain_id |-> r.chain_id, prev_state_root |-> r.prev_state_root, block_hashes |-> r.block_hashes,
      mpt_nodes |-> l, codes |-> r.codes] : r \in PobDataRest, l \in NodeLists}

\* The proofs handed to from_proof.
Acc(account_proof, storage_proof) ==
    [some |-> TRUE, account_proof |-> account_proof, storage_proof |-> storage_proof]

NoAcc == [some |-> FALSE, account_proof |-> <<>>, storage_proof |-> <<>>]

ProofInputs ==
    {<<>>,
     <<[acc |-> NoAcc]>>,
     <<[acc |-> Acc(<<<<1>>, <<1, 2>>>>, <<>>)]>>,
     <<[acc |-> Acc(<<<<1>>, <<2>>>>, <<[proof |-> <<<<1, 2>>, <<1>>>>]>>)], [acc |-> Acc(<<<<2>>>>, <<>>)]>>}

PobInit ==
    /\ pob = Pob_new("blk1", PobData_default)
    /\ pob_ret = NoHash
    /\ pob_first = NoHash

(***************************************************************************)
(* Precompiled contracts (precompile.rs).  Inputs and outputs are byte     *)
(* strings: sequences of numbers 0..255.  A 256 bit number is kept as its  *)
(* 32 bytes, most significant first.                                       *)
(***************************************************************************)

\* n bytes of value b: [b; n]
Repeat(b, n) == [i \in 1..n |-> b]

\* &v[from..to], positions counted from 0.
Slice(v, from, to) == SubSeq(v, from + 1, to)

\* Vec::resize(n, 0) and the padding loops: v cut or zero filled to n bytes.
Resize(v, n) == [i \in 1..n |-> IF i <= Len(v) THEN v[i] ELSE 0]

\* v zero filled to at least n bytes.
PadTo(v, n) == IF Len(v) >= n THEN v ELSE Resize(v, n)

\* The 32 bytes of a small number.
Word(x) == Repeat(0, 29) \o <<(x \div 65536) % 256, (x \div 256) % 256, x % 256>>

\* Comparison of two numbers given by as many bytes each: a < b.
BytesLess(a, b) == \E i \in 1..Len(a) : a[i] < b[i] /\ \A j \in 1..(i - 1) : a[j] = b[j]

\* is_zero of a number given by its bytes.
IsZero(a) == \A i \in 1..Len(a) : a[i] = 0

\* What run and PrecompileSet::execute return.  A panic unwinds out of the
\* call.
PrecompileOk(output) == [kind |-> "Ok", msg |-> "Returned", output |-> output]
exit_error(val) == [kind |-> "Error", msg |-> val, output |-> <<>>]
Fatal(status) == [kind |-> "Fatal", msg |-> status, output |-> <<>>]
Panic(what) == [kind |-> "Panic", msg |-> what, output |-> <<>>]
NotRegistered == [kind |-> "None", msg |-> "", output |-> <<>>]

\* A gas amount returned by required_gas, or the panic it ended in.
GasOk(gas) == [kind |-> "Ok", gas |-> gas, msg |-> ""]
GasPanic(what) == [kind |-> "Panic", gas |-> 0, msg |-> what]

\* PrecompiledContract::calculate_gas
calculate_gas(input, per_word_gas, base_gas) == ((Len(input) + 31) \div 32) * per_word_gas + base_gas

\* H160 with the last byte idx, the address add registers a contract at.
Addr(idx) == Repeat(0, 19) \o <<idx>>

\* Digests computed outside this crate: n bytes fixed by the data, none 0.
Digest(tag, data, n) == [i \in 1..n |-> 1 + ((tag + i + Len(data) + (IF data = <<>> THEN 0 ELSE data[1] + data[Len(data)])) % 255)]

sha256_sum(data) == Digest(2, data, 32)
Ripemd160_digest(data) == Digest(3, data, 20)
keccak_hash_bytes(data) == Digest(1, data, 32)

\* PrecompileUnimplemented
Unimplemented_required_gas(input) == GasOk(0)
Unimplemented_run(input) == Fatal("NotSupported")

\* PrecompileRevert
Revert_required_gas(input) == GasOk(1000000000)
Revert_run(input) == Fatal("DISABLED")

\* SECP256K1N, the order of secp256k1
SECP256K1N ==
    Repeat(255, 15) \o <<254, 186, 174, 220, 230, 175, 72, 160, 59, 191, 210, 94, 140, 208, 54, 65, 65>>

\* crypto::secp256k1_ecdsa_recover: the public key, if r is the x coordinate
\* of a point of the curve; here the r with an even last byte are.
secp256k1_ecdsa_recover(sig, msg) ==
    IF sig[32] % 2 = 1 THEN [some |-> FALSE, pubkey |-> <<>>]
    ELSE [some |-> TRUE, pubkey |-> Slice(sig, 0, 64) \o msg]

\* ecrecover without the check of v.
ecrecover_any_v(i) ==
    LET input == Resize(i, 128)
        msg == Slice(input, 0, 32)
        sig == Slice(input, 64, 96) \o Slice(input, 96, 128) \o <<input[64]>>
        r == Slice(sig, 0, 32)
        s == Slice(sig, 32, 64)
        recovered_ == secp256k1_ecdsa_recover(sig, msg)
    IN  IF \E k \in 32..62 : input[k + 1] # 0 THEN <<>>
        ELSE IF IsZero(r) \/ IsZero(s) THEN <<>>
        ELSE IF ~BytesLess(r, SECP256K1N) \/ ~BytesLess(s, SECP256K1N) THEN <<>>
        ELSE IF ~recovered_.some THEN <<>>
        ELSE Repeat(0, 12) \o Slice(keccak_hash_bytes(recovered_.pubkey), 12, 32)

\* fn ecrecover(i: &[u8]) -> Vec<u8> of PrecompileEcrecover::run
ecrecover(i) ==
    LET input == Resize(i, 128)
        msg == Slice(input, 0, 32)
        sig == Slice(input, 64, 96) \o Slice(input, 96, 128) \o <<input[64]>>
        r == Slice(sig, 0, 32)
        s == Slice(sig, 32, 64)
        v == sig[65]
        recovered_ == secp256k1_ecdsa_recover(sig, msg)
    IN  IF \E k \in 32..62 : input[k + 1] # 0 THEN <<>>
        ELSE IF IsZero(r) \/ IsZero(s) THEN <<>>
        ELSE IF ~BytesLess(r, SECP256K1N) \/ ~BytesLess(s, SECP256K1N) \/ (v # 27 /\ v # 28) THEN <<>>
        ELSE IF ~recovered_.some THEN <<>>
        ELSE Repeat(0, 12) \o Slice(keccak_hash_bytes(recovered_.pubkey), 12, 32)

\* PrecompileEcrecover
Ecrecover_required_gas(input) == GasOk(3000)
Ecrecover_run(input) == PrecompileOk(ecrecover(input))

\* PrecompileSha256Hash
Sha256Hash_required_gas(input) == GasOk(calculate_gas(input, 12, 60))
Sha256Hash_run(input) == PrecompileOk(sha256_sum(input))

\* PrecompileDataCopy
DataCopy_required_gas(input) == GasOk(calculate_gas(input, 3, 15))
DataCopy_run(input) == PrecompileOk(input)

\* PrecompileRipemd160Hash
Ripemd160Hash_required_gas(input) == GasOk(calculate_gas(input, 120, 600))
Ripemd160Hash_run(input) == PrecompileOk(Repeat(0, 12) \o Ripemd160_digest(input))

(***************************************************************************)
(* PrecompileBigModExp.  The three lengths are read as usize: the numbers  *)
(* here are those below 2^31, and a U256 above usize::MAX makes as_usize   *)
(* panic.                                                                  *)
(***************************************************************************)

\* The number a byte string is, most significant byte first.
RECURSIVE FromBytesBE(_)
FromBytesBE(b) == IF IsZero(b) THEN 0 ELSE FromBytesBE(SubSeq(b, 1, Len(b) - 1)) * 256 + b[Len(b)]

\* U256::as_usize of the U256 made from 32 bytes.
as_usize(word) ==
    IF \E i \in 1..24 : word[i] # 0 THEN [ok |-> FALSE, val |-> 0]
    ELSE [ok |-> TRUE, val |-> FromBytesBE(Slice(word, 24, 32))]

\* The number of bits of a number below 256.
RECURSIVE BitLen(_)
BitLen(x) == IF x = 0 THEN 0 ELSE 1 + BitLen(x \div 2)

\* U256::bits of the number a byte string is.
bits(b) ==
    IF IsZero(b) THEN 0
    ELSE LET first == CHOOSE i \in 1..Len(b) : b[i] # 0 /\ \A j \in 1..(i - 1) : b[j] = 0
         IN  8 * (Len(b) - first) + BitLen(b[first])

\* usize::max / Ord::max
max(x, y) == IF x >= y THEN x ELSE y

\* u64::MAX, as its 8 bytes.
u64_MAX == Repeat(255, 8)

\* PrecompileBigModExp::required_gas (eip2565 is true in both profiles).
BigModExp_required_gas(self, input_) ==
    LET data == PadTo(input_, 96)
        base_len == as_usize(Slice(data, 0, 32))
        exp_len == as_usize(Slice(data, 32, 64))
        mod_len == as_usize(Slice(data, 64, 96))
        input == IF Len(input_) >= 96 THEN Slice(input_, 96, Len(input_)) ELSE <<>>
    IN  IF ~base_len.ok \/ ~exp_len.ok \/ ~mod_len.ok THEN GasPanic("Integer overflow when casting to usize")
        ELSE
        LET window == IF exp_len.val > 32 THEN 32 ELSE exp_len.val
            in_range == base_len.val + window <= Len(input)
            exp_head == IF Len(input) <= base_len.val THEN <<>>
                        ELSE Slice(input, base_len.val, base_len.val + window)
            msb == IF bits(exp_head) = 0 THEN 0 ELSE bits(exp_head) - 1
            adj_exp_len == (IF exp_len.val > 32 THEN (exp_len.val - 32) * 8 ELSE 0) + msb
            words == (max(mod_len.val, base_len.val) + 7) \div 8
            gas == (words * words * max(adj_exp_len, 1)) \div 3
        IN  IF Len(input) > base_len.val /\ ~in_range THEN GasPanic("range end index out of range for slice")
            ELSE IF ~self.eip2565 THEN GasPanic("not implemented")
            ELSE IF BitLen(gas) > 64 THEN GasOk(u64_MAX)
            ELSE IF gas < 200 THEN GasOk(200)
            ELSE GasOk(gas)

\* The bytes of one operand: data[from..from + len], zero where data ends.
Operand(data, from, len) == [i \in 1..len |-> IF from + i > Len(data) THEN 0 ELSE data[from + i]]

\* BigUint::to_bytes_be: no leading zero, one zero byte for 0.
RECURSIVE to_bytes_be(_)
to_bytes_be(x) == IF x < 256 THEN <<x>> ELSE to_bytes_be(x \div 256) \o <<x % 256>>

\* The number a byte string is, modulo m.
RECURSIVE FromBytesMod(_, _)
FromBytesMod(b, m) ==
    IF IsZero(b) THEN 0 ELSE (FromBytesMod(SubSeq(b, 1, Len(b) - 1), m) * 256 + b[Len(b)]) % m

\* x^e mod m for a number e
RECURSIVE PowMod(_, _, _)
PowMod(x, e, m) ==
    IF e = 0 THEN 1 % m
    ELSE LET half == PowMod(x, e \div 2, m)
             square == (half * half) % m
         IN  IF e % 2 = 1 THEN (square * x) % m ELSE square

\* BigUint::modpow: base^exponent mod modulus, the exponent byte by byte.
RECURSIVE modpow(_, _, _)
modpow(base, exponent_arr, modulus) ==
    IF IsZero(exponent_arr) THEN 1 % modulus
    ELSE LET n == Len(exponent_arr)
             high == modpow(base, SubSeq(exponent_arr, 1, n - 1), modulus)
         IN  (PowMod(high, 256, modulus) * PowMod(base, exponent_arr[n], modulus)) % modulus

\* PrecompileBigModExp::run
BigModExp_run(self, input) ==
    LET data == PadTo(input, 96)
        base_length == as_usize(Slice(data, 0, 32))
        exponent_length == as_usize(Slice(data, 32, 64))
        modulus_length == as_usize(Slice(data, 64, 96))
    IN  IF ~base_length.ok \/ ~exponent_length.ok \/ ~modulus_length.ok
        THEN Panic("Integer overflow when casting to usize")
        ELSE IF self.length_limit.some
                /\ (\/ base_length.val > self.length_limit.val
                    \/ exponent_length.val > self.length_limit.val
                    \/ modulus_length.val > self.length_limit.val)
        THEN exit_error("input length exceed limitation")
        ELSE IF base_length.val = 0 /\ modulus_length.val = 0 THEN PrecompileOk(<<>>)
        ELSE
        LET base_arr == Operand(data, 96, base_length.val)
            exponent_arr == Operand(data, 96 + base_length.val, exponent_length.val)
            modulus_arr == Operand(data, 96 + base_length.val + exponent_length.val, modulus_length.val)
            modulus == FromBytesBE(modulus_arr)
            result == IF modulus = 0 \/ modulus = 1 THEN to_bytes_be(0)
                      ELSE to_bytes_be(modpow(FromBytesMod(base_arr, modulus), exponent_arr, modulus))
        IN  IF ~(Len(result) <= modulus_length.val)
            THEN Panic("assertion failed: result.len() <= modulus_length")
            ELSE PrecompileOk(Repeat(0, modulus_length.val - Len(result)) \o result)

(***************************************************************************)
(* PrecompileBlake2F and mod eip_152.  A u64 is kept as its 8 bytes, least *)
(* significant first.                                                      *)
(***************************************************************************)

\* x ^ y for two bytes, bit by bit.
Xor8(x, y) ==
    ((x + y) % 2)
    + 2 * (((x \div 2) + (y \div 2)) % 2)
    + 4 * (((x \div 4) + (y \div 4)) % 2)
    + 8 * (((x \div 8) + (y \div 8)) % 2)
    + 16 * (((x \div 16) + (y \div 16)) % 2)
    + 32 * (((x \div 32) + (y \div 32)) % 2)
    + 64 * (((x \div 64) + (y \div 64)) % 2)
    + 128 * (((x \div 128) + (y \div 128)) % 2)

\* a ^ b for two u64
xor64(a, b) ==
    <<Xor8(a[1], b[1]), Xor8(a[2], b[2]), Xor8(a[3], b[3]), Xor8(a[4], b[4]),
      Xor8(a[5], b[5]), Xor8(a[6], b[6]), Xor8(a[7], b[7]), Xor8(a[8], b[8])>>

\* !a
not64(a) ==
    <<255 - a[1], 255 - a[2], 255 - a[3], 255 - a[4], 255 - a[5], 255 - a[6], 255 - a[7], 255 - a[8]>>

\* u64::wrapping_add, in limbs of three, three and two bytes.
wrapping_add(a, b) ==
    LET low == a[1] + b[1] + 256 * (a[2] + b[2]) + 65536 * (a[3] + b[3])
        mid == a[4] + b[4] + 256 * (a[5] + b[5]) + 65536 * (a[6] + b[6]) + (low \div 16777216)
        high == a[7] + b[7] + 256 * (a[8] + b[8]) + (mid \div 16777216)
    IN  <<low % 256, (low \div 256) % 256, (low \div 65536) % 256,
          mid % 256, (mid \div 256) % 256, (mid \div 65536) % 256,
          high % 256, (high \div 256) % 256>>

\* u64::rotate_right by 32, 24, 16 or 63 bits
rotate_right(a, n) ==
    IF n = 63
    THEN <<((a[1] * 2) % 256) + (a[8] \div 128), ((a[2] * 2) % 256) + (a[1] \div 128),
           ((a[3] * 2) % 256) + (a[2] \div 128), ((a[4] * 2) % 256) + (a[3] \div 128),
           ((a[5] * 2) % 256) + (a[4] \div 128), ((a[6] * 2) % 256) + (a[5] \div 128),
           ((a[7] * 2) % 256) + (a[6] \div 128), ((a[8] * 2) % 256) + (a[7] \div 128)>>
    ELSE SubSeq(a, n \div 8 + 1, 8) \o SubSeq(a, 1, n \div 8)

\* u64::from_le_bytes(input[pos..pos + 8])
from_le_bytes(input, pos) == Slice(input, pos, pos + 8)

\* u32::from_be_bytes(input[..4])
u32_from_be_bytes(b) == FromBytesBE(b)

\* eip_152::SIGMA
SIGMA ==
    <<<<0, 1, 2, 3, 4, 5, 6, 7, 8, 9, 10, 11, 12, 13, 14, 15>>,
      <<14, 10, 4, 8, 9, 15, 13, 6, 1, 12, 0, 2, 11, 7, 5, 3>>,
      <<11, 8, 12, 0, 5, 2, 15, 13, 10, 14, 3, 6, 7, 1, 9, 4>>,
      <<7, 9, 3, 1, 13, 12, 11, 14, 2, 6, 5, 10, 4, 0, 15, 8>>,
      <<9, 0, 5, 7, 2, 4, 10, 15, 14, 1, 11, 12, 6, 8, 3, 13>>,
      <<2, 12, 6, 10, 0, 11, 8, 3, 4, 13, 7, 5, 15, 14, 1, 9>>,
      <<12, 5, 1, 15, 14, 13, 4, 10, 0, 7, 6, 3, 9, 2, 8, 11>>,
      <<13, 11, 7, 14, 12, 1, 3, 9, 5, 0, 15, 4, 8, 6, 2, 10>>,
      <<6, 15, 14, 9, 11, 3, 0, 8, 12, 2, 13, 7, 1, 4, 10, 5>>,
      <<10, 2, 8, 4, 7, 6, 1, 5, 15, 11, 9, 14, 3, 12, 13, 0>>>>

\* eip_152::IV
IV ==
    <<<<8, 201, 188, 243, 103, 230, 9, 106>>,
      <<59, 167, 202, 132, 133, 174, 103, 187>>,
      <<43, 248, 148, 254, 114, 243, 110, 60>>,
      <<241, 54, 29, 95, 58, 245, 79, 165>>,
      <<209, 130, 230, 173, 127, 82, 14, 81>>,
      <<31, 108, 62, 43, 140, 104, 5, 155>>,
      <<107, 189, 65, 251, 171, 217, 131, 31>>,
      <<121, 33, 126, 19, 25, 205, 224, 91>>>>

\* The first four assignments of eip_152::g, and with other words and
\* rotations the last four: q holds v[a], v[b], v[c] and v[d].
g_half(q, x, rot_d, rot_b) ==
    LET va == wrapping_add(wrapping_add(q[1], q[2]), x)
        vd == rotate_right(xor64(q[4], va), rot_d)
        vc == wrapping_add(q[3], vd)
        vb == rotate_right(xor64(q[2], vc), rot_b)
    IN  <<va, vb, vc, vd>>

\* v with v[a], v[b], v[c] and v[d] set to the four words of q; v is
\* counted from 0 as in the source.
g_assign(v, a, b, c, d, q) == [v EXCEPT ![a + 1] = q[1], ![b + 1] = q[2], ![c + 1] = q[3], ![d + 1] = q[4]]

\* eip_152::g
g(v, a, b, c, d, x, y) ==
    g_assign(v, a, b, c, d,
             g_half(g_half(<<v[a + 1], v[b + 1], v[c + 1], v[d + 1]>>, x, 32, 24), y, 16, 63))

\* The columns and diagonals the eight calls of g in a round work on.
G_CALLS ==
    <<<<0, 4, 8, 12>>, <<1, 5, 9, 13>>, <<2, 6, 10, 14>>, <<3, 7, 11, 15>>,
      <<0, 5, 10, 15>>, <<1, 6, 11, 12>>, <<2, 7, 8, 13>>, <<3, 4, 9, 14>>>>

\* The calls of g of one round from call st.k on, with s the row of SIGMA
\* of the round; st.v is the vector the calls before left.
RECURSIVE compress_calls(_, _, _)
compress_calls(st, m, s) ==
    IF st.k >= 8 THEN st.v
    ELSE LET c == G_CALLS[st.k + 1]
         IN  compress_calls([k |-> st.k + 1,
                             v |-> g(st.v, c[1], c[2], c[3], c[4],
                                     m[s[2 * st.k + 1] + 1], m[s[2 * st.k + 2] + 1])],
                            m, s)

\* One round of compress: the eight calls of g with the words SIGMA[i % 10]
\* selects.
compress_round(v, m, i) == compress_calls([k |-> 0, v |-> v], m, SIGMA[(i % 10) + 1])

\* for i in 0..rounds, from round st.i on; st.v is the vector the rounds
\* before left.
RECURSIVE compress_rounds(_, _, _)
compress_rounds(st, m, rounds) ==
    IF st.i >= rounds THEN st.v
    ELSE compress_rounds([i |-> st.i + 1, v |-> compress_round(st.v, m, st.i)], m, rounds)

\* The vector v compress starts its rounds with.
compress_init(h, t, f) ==
    [h \o IV EXCEPT ![13] = xor64(@, t[1]), ![14] = xor64(@, t[2]), ![15] = IF f THEN not64(@) ELSE @]

\* for i in 0..8 { h[i] ^= v[i] ^ v[i + 8] }
compress_fold(h, v) ==
    <<xor64(h[1], xor64(v[1], v[9])), xor64(h[2], xor64(v[2], v[10])),
      xor64(h[3], xor64(v[3], v[11])), xor64(h[4], xor64(v[4], v[12])),
      xor64(h[5], xor64(v[5], v[13])), xor64(h[6], xor64(v[6], v[14])),
      xor64(h[7], xor64(v[7], v[15])), xor64(h[8], xor64(v[8], v[16]))>>

\* eip_152::compress: the state vector h after the call.
compress(h, m, t, f, rounds) ==
    compress_fold(h, compress_rounds([i |-> 0, v |-> compress_init(h, t, f)], m, rounds))

\* PrecompileBlake2F::required_gas
Blake2F_required_gas(input) ==
    IF Len(input) # 213 THEN GasOk(0) ELSE GasOk(u32_from_be_bytes(Slice(input, 0, 4)))

\* The n words of 8 bytes of input from pos on.
u64_words(input, pos, n) == [i \in 1..n |-> from_le_bytes(input, pos + 8 * (i - 1))]

\* PrecompileBlake2F::run with every final flag but 1 read as false.
Blake2F_run_any_flag(input) ==
    IF Len(input) # 213
    THEN exit_error("Invalid input for blake2f precompile: incorrect length")
    ELSE PrecompileOk(Concat(compress(u64_words(input, 4, 8), u64_words(input, 68, 16), u64_words(input, 196, 2),
                                      input[213] = 1, u32_from_be_bytes(Slice(input, 0, 4)))))

\* PrecompileBlake2F::run
Blake2F_run(input) ==
    IF Len(input) # 213
    THEN exit_error("Invalid input for blake2f precompile: incorrect length")
    ELSE IF input[213] # 1 /\ input[213] # 0
    THEN exit_error("Invalid input for blake2f precompile: incorrect final flag")
    ELSE PrecompileOk(Concat(compress(u64_words(input, 4, 8), u64_words(input, 68, 16), u64_words(input, 196, 2),
                                      input[213] = 1, u32_from_be_bytes(Slice(input, 0, 4)))))

(***************************************************************************)
(* bn256 (the bn crate).  A point of G1 or G2 is kept as the multiple of   *)
(* the generator it is; the points that occur are 0, the generator, its    *)
(* double and their negatives.  An element of Gt is kept as the power of   *)
(* e(G1, G2) it is.                                                        *)
(***************************************************************************)

ADD_INPUT_LEN == 128

MUL_INPUT_LEN == 128

PAIR_ELEMENT_LEN == 192

\* The modulus of the field Fq.
FqModulus ==
    <<48, 100, 78, 114, 225, 49, 160, 41, 184, 80, 69, 182, 129, 129, 88, 93,
      151, 129, 106, 145, 104, 113, 202, 141, 60, 32, 140, 22, 216, 124, 253, 71>>

\* Fq::from_slice: an element of the field, or an error for a number that is
\* not below the modulus.
Fq_from_slice(buf) == [ok |-> BytesLess(buf, FqModulus), val |-> buf]

\* The coordinates of the multiples of the generator of G1.
G1Coordinates ==
    [k \in {-2, -1, 1, 2} |->
        IF k = 1 THEN <<Word(1), Word(2)>>
        ELSE IF k = -1 THEN <<Word(1), [FqModulus EXCEPT ![32] = 69]>>
        ELSE <<<<3, 6, 68, 231, 46, 19, 26, 2, 155, 133, 4, 91, 104, 24, 21, 133,
                 217, 120, 22, 169, 22, 135, 28, 168, 211, 194, 8, 193, 109, 135, 207, 211>>,
               IF k = 2
               THEN <<21, 237, 115, 140, 14, 10, 124, 146, 231, 132, 95, 150, 178, 174, 156, 10,
                      104, 166, 164, 73, 227, 83, 143, 199, 255, 62, 191, 122, 90, 24, 162, 196>>
               ELSE <<26, 118, 218, 230, 211, 39, 35, 150, 208, 203, 230, 31, 206, 210, 188, 83,
                      46, 218, 198, 71, 133, 30, 58, 197, 60, 225, 204, 156, 126, 100, 90, 131>>>>]

\* AffineG1::new: the point with these coordinates, or an error when they
\* are not on the curve.
AffineG1_new(px, py) ==
    IF \E k \in DOMAIN G1Coordinates : G1Coordinates[k] = <<px, py>>
    THEN [ok |-> TRUE, point |-> CHOOSE k \in DOMAIN G1Coordinates : G1Coordinates[k] = <<px, py>>]
    ELSE [ok |-> FALSE, point |-> 0]

\* The generator of G2: x imaginary, x real, y imaginary, y real.
G2Generator ==
    <<<<25, 142, 147, 147, 146, 13, 72, 58, 114, 96, 191, 183, 49, 251, 93, 37,
        241, 170, 73, 51, 53, 169, 231, 18, 151, 228, 133, 183, 174, 243, 18, 194>>,
      <<24, 0, 222, 239, 18, 31, 30, 118, 66, 106, 0, 102, 94, 92, 68, 121,
        103, 67, 34, 212, 247, 94, 218, 221, 70, 222, 189, 92, 217, 146, 246, 237>>,
      <<9, 6, 137, 208, 88, 95, 240, 117, 236, 158, 153, 173, 105, 12, 51, 149,
        188, 75, 49, 51, 112, 179, 142, 243, 85, 172, 218, 220, 209, 34, 151, 91>>,
      <<18, 200, 94, 165, 219, 140, 109, 235, 74, 171, 113, 128, 141, 203, 64, 143,
        227, 209, 231, 105, 12, 67, 211, 123, 76, 230, 204, 1, 102, 250, 125, 170>>>>

\* AffineG2::new(Fq2::new(bax, bay), Fq2::new(bbx, bby))
AffineG2_new(bax, bay, bbx, bby) ==
    IF <<bay, bax, bby, bbx>> = G2Generator THEN [ok |-> TRUE, point |-> 1]
    ELSE [ok |-> FALSE, point |-> 0]

\* The 64 bytes of a point of G1: AffineG1::from_jacobian is None for 0 and
\* the output stays zero.
G1Output(k) == IF k = 0 THEN Repeat(0, 64) ELSE G1Coordinates[k][1] \o G1Coordinates[k][2]

\* fn read_point: the point, or the panic of an unwrap.
read_point(input, pos) ==
    LET px == Fq_from_slice(Slice(input, pos, pos + 32))
        py == Fq_from_slice(Slice(input, pos + 32, pos + 64))
        g1 == AffineG1_new(px.val, py.val)
    IN  IF ~px.ok \/ ~py.ok THEN [ok |-> FALSE, point |-> 0]
        ELSE IF IsZero(px.val) /\ IsZero(py.val) THEN [ok |-> TRUE, point |-> 0]
        ELSE g1

\* PrecompileAddIstanbul
AddIstanbul_required_gas(input_) == GasOk(150)
AddIstanbul_run(input_) ==
    LET input == Resize(input_, ADD_INPUT_LEN)
        p1 == read_point(input, 0)
        p2 == read_point(input, 64)
    IN  IF ~p1.ok \/ ~p2.ok THEN Panic("called Result::unwrap() on an Err value")
        ELSE PrecompileOk(G1Output(p1.point + p2.point))

\* PrecompileMulIstanbul
MulIstanbul_required_gas(input_) == GasOk(6000)
MulIstanbul_run(input_) ==
    LET input == Resize(input_, MUL_INPUT_LEN)
        p == read_point(input, 0)
        fr == FromBytesBE(Slice(input, 64, 96))
    IN  IF ~p.ok THEN Panic("called Result::unwrap() on an Err value")
        ELSE PrecompileOk(G1Output(p.point * fr))

\* PrecompilePairIstanbul::required_gas
PairIstanbul_required_gas(input) == GasOk(45000 + (Len(input) \div 192) * 34000)

\* One element of the input of the pairing: the pair (a, b) or the error.
pair_element(input, idx) ==
    LET PEL == PAIR_ELEMENT_LEN
        ax == Fq_from_slice(Slice(input, idx * PEL, idx * PEL + 32))
        ay == Fq_from_slice(Slice(input, idx * PEL + 32, idx * PEL + 64))
        bay == Fq_from_slice(Slice(input, idx * PEL + 64, idx * PEL + 96))
        bax == Fq_from_slice(Slice(input, idx * PEL + 96, idx * PEL + 128))
        bby == Fq_from_slice(Slice(input, idx * PEL + 128, idx * PEL + 160))
        bbx == Fq_from_slice(Slice(input, idx * PEL + 160, idx * PEL + 192))
        g1 == AffineG1_new(ax.val, ay.val)
        g2 == AffineG2_new(bax.val, bay.val, bbx.val, bby.val)
        a_zero == IsZero(ax.val) /\ IsZero(ay.val)
        b_zero == IsZero(bax.val) /\ IsZero(bay.val) /\ IsZero(bbx.val) /\ IsZero(bby.val)
        err(msg) == [ok |-> FALSE, err |-> exit_error(msg), a |-> 0, b |-> 0]
    IN  IF ~ax.ok THEN err("Invalid a argument x coordinate")
        ELSE IF ~ay.ok THEN err("Invalid a argument y coordinate")
        ELSE IF ~bay.ok THEN err("Invalid b argument imaginary coeff y coordinate")
        ELSE IF ~bax.ok THEN err("Invalid b argument imaginary coeff x coordinate")
        ELSE IF ~bby.ok THEN err("Invalid b argument real coeff y coordinate")
        ELSE IF ~bbx.ok THEN err("Invalid b argument real coeff x coordinate")
        ELSE IF ~a_zero /\ ~g1.ok THEN err("Invalid a argument - not on curve")
        ELSE IF ~b_zero /\ ~g2.ok THEN err("Invalid a argument - not on curve")
        ELSE [ok |-> TRUE, err |-> exit_error(""),
              a |-> IF a_zero THEN 0 ELSE g1.point, b |-> IF b_zero THEN 0 ELSE g2.point]

\* The loop over the elements and the fold over the pairings: the power of
\* e(G1, G2) the product is, or the first error.
RECURSIVE pair_loop(_, _, _, _)
pair_loop(input, idx, elements, mul) ==
    IF idx >= elements THEN [ok |-> TRUE, err |-> exit_error(""), mul |-> mul]
    ELSE LET e == pair_element(input, idx)
         IN  IF ~e.ok THEN [ok |-> FALSE, err |-> e.err, mul |-> 0]
             ELSE pair_loop(input, idx + 1, elements, mul + e.a * e.b)

\* PrecompilePairIstanbul::run without the limit on the number of pairs.
PairIstanbul_run_unlimited(self, input) ==
    IF Len(input) % PAIR_ELEMENT_LEN # 0
    THEN exit_error("bad elliptic curve pairing size")
    ELSE IF Len(input) = 0 THEN PrecompileOk(Word(1))
    ELSE LET l == pair_loop(input, 0, Len(input) \div PAIR_ELEMENT_LEN, 0)
         IN  IF ~l.ok THEN l.err
             ELSE PrecompileOk(IF l.mul = 0 THEN Word(1) ELSE Word(0))

\* PrecompilePairIstanbul::run
PairIstanbul_run(self, input) ==
    IF self.max_input_num.some /\ Len(input) > self.max_input_num.val * PAIR_ELEMENT_LEN
    THEN exit_error("bad elliptic curve pairing size, the input num exceed limitation")
    ELSE IF Len(input) % PAIR_ELEMENT_LEN # 0
    THEN exit_error("bad elliptic curve pairing size")
    ELSE IF Len(input) = 0 THEN PrecompileOk(Word(1))
    ELSE LET l == pair_loop(input, 0, Len(input) \div PAIR_ELEMENT_LEN, 0)
         IN  IF ~l.ok THEN l.err
             ELSE PrecompileOk(IF l.mul = 0 THEN Word(1) ELSE Word(0))

(***************************************************************************)
(* PrecompileSet                                                           *)
(***************************************************************************)

\* Option<usize>
NoLimit == [some |-> FALSE, val |-> 0]
Limit(n) == [some |-> TRUE, val |-> n]

\* The contracts: what the structs hold.
Contract(kind) == [kind |-> kind, addr |-> 0, eip2565 |-> FALSE, length_limit |-> NoLimit, max_input_num |-> NoLimit]
PrecompileUnimplemented(addr) == [Contract("Unimplemented") EXCEPT !.addr = addr]
PrecompileBigModExp(eip2565, length_limit) ==
    [Contract("BigModExp") EXCEPT !.eip2565 = eip2565, !.length_limit = length_limit]
PrecompilePairIstanbul(max_input_num) == [Contract("PairIstanbul") EXCEPT !.max_input_num = max_input_num]

\* p.required_gas(input)
required_gas(p, input) ==
    CASE p.kind = "Unimplemented" -> Unimplemented_required_gas(input)
      [] p.kind = "Revert" -> Revert_required_gas(input)
      [] p.kind = "Ecrecover" -> Ecrecover_required_gas(input)
      [] p.kind = "Sha256Hash" -> Sha256Hash_required_gas(input)
      [] p.kind = "Ripemd160Hash" -> Ripemd160Hash_required_gas(input)
      [] p.kind = "DataCopy" -> DataCopy_required_gas(input)
      [] p.kind = "BigModExp" -> BigModExp_required_gas(p, input)
      [] p.kind = "AddIstanbul" -> AddIstanbul_required_gas(input)
      [] p.kind = "MulIstanbul" -> MulIstanbul_required_gas(input)
      [] p.kind = "PairIstanbul" -> PairIstanbul_required_gas(input)
      [] p.kind = "Blake2F" -> Blake2F_required_gas(input)

\* p.run(input)
run(p, input) ==
    CASE p.kind = "Unimplemented" -> Unimplemented_run(input)
      [] p.kind = "Revert" -> Revert_run(input)
      [] p.kind = "Ecrecover" -> Ecrecover_run(input)
      [] p.kind = "Sha256Hash" -> Sha256Hash_run(input)
      [] p.kind = "Ripemd160Hash" -> Ripemd160Hash_run(input)
      [] p.kind = "DataCopy" -> DataCopy_run(input)
      [] p.kind = "BigModExp" -> BigModExp_run(p, input)
      [] p.kind = "AddIstanbul" -> AddIstanbul_run(input)
      [] p.kind = "MulIstanbul" -> MulIstanbul_run(input)
      [] p.kind = "PairIstanbul" -> PairIstanbul_run(p, input)
      [] p.kind = "Blake2F" -> Blake2F_run(input)

\* PrecompileSet::default(): no contract registered.
PrecompileSet_default == <<>>

\* PrecompileSet::add
add(fns, idx, p) == (Addr(idx) :> p) @@ fns

\* A run of add calls, in order.
RECURSIVE add_all(_, _)
add_all(fns, list) ==
    IF list = <<>> THEN fns ELSE add_all(add(fns, list[1][1], list[1][2]), Tail(list))

\* for i in 1..=9 { def.add(i, PrecompileUnimplemented { addr: i }) }
Unimplemented1to9 == [i \in 1..9 |-> <<i, PrecompileUnimplemented(i)>>]

\* PrecompileSet::berlin
berlin ==
    add_all(PrecompileSet_default,
            Unimplemented1to9 \o
            <<<<1, Contract("Ecrecover")>>,
              <<2, Contract("Sha256Hash")>>,
              <<3, Contract("Ripemd160Hash")>>,
              <<4, Contract("DataCopy")>>,
              <<5, PrecompileBigModExp(TRUE, NoLimit)>>,
              <<6, Contract("AddIstanbul")>>,
              <<7, Contract("MulIstanbul")>>,
              <<8, PrecompilePairIstanbul(NoLimit)>>,
              <<9, Contract("Blake2F")>>>>)

\* PrecompileSet::scroll with sha256 left at index 2.
scroll_with_sha256 ==
    add_all(PrecompileSet_default,
            Unimplemented1to9 \o
            <<<<1, Contract("Ecrecover")>>,
              <<2, Contract("Sha256Hash")>>,
              <<3, Contract("Revert")>>,
              <<4, Contract("DataCopy")>>,
              <<5, PrecompileBigModExp(TRUE, Limit(32))>>,
              <<6, Contract("AddIstanbul")>>,
              <<7, Contract("MulIstanbul")>>,
              <<8, PrecompilePairIstanbul(Limit(4))>>,
              <<9, Contract("Revert")>>>>)

\* PrecompileSet::scroll
scroll ==
    add_all(PrecompileSet_default,
            Unimplemented1to9 \o
            <<<<1, Contract("Ecrecover")>>,
              <<2, Contract("Revert")>>,
              <<3, Contract("Revert")>>,
              <<4, Contract("DataCopy")>>,
              <<5, PrecompileBigModExp(TRUE, Limit(32))>>,
              <<6, Contract("AddIstanbul")>>,
              <<7, Contract("MulIstanbul")>>,
              <<8, PrecompilePairIstanbul(Limit(4))>>,
              <<9, Contract("Revert")>>>>)

\* The two profiles by name.
Profiles == {"berlin", "scroll"}

PrecompileSetOf(profile) == IF profile = "berlin" THEN berlin ELSE scroll

\* PrecompileSet::get_addresses
get_addresses(self) == DOMAIN self

\* What the ? after handle.record_cost returns when the handle has not the
\* gas: PrecompileFailure::Error with the ExitError of the handle.
record_cost_failure == [kind |-> "Error", msg |-> "ExitError::OutOfGas", output |-> <<>>]

\* run_precompiled_contract that runs the contract whatever record_cost
\* returned.
run_precompiled_contract_unchecked(p, input, record_ok) ==
    LET gas_cost == required_gas(p, input) IN
    IF gas_cost.kind = "Panic"
    THEN [ret |-> Panic(gas_cost.msg), events |-> <<<<"required_gas">>>>]
    ELSE [ret |-> run(p, input),
          events |-> <<<<"required_gas">>, <<"record_cost", gas_cost.gas>>, <<"run">>>>]

\* fn run_precompiled_contract: what it returns and the calls it made on the
\* contract and on the handle, in their order; record_ok is whether
\* handle.record_cost succeeds.  A panic of required_gas or run unwinds
\* through it.
run_precompiled_contract(p, input, record_ok) ==
    LET gas_cost == required_gas(p, input) IN
    IF gas_cost.kind = "Panic"
    THEN [ret |-> Panic(gas_cost.msg), events |-> <<<<"required_gas">>>>]
    ELSE IF ~record_ok
    THEN [ret |-> record_cost_failure,
          events |-> <<<<"required_gas">>, <<"record_cost", gas_cost.gas>>>>]
    ELSE [ret |-> run(p, input),
          events |-> <<<<"required_gas">>, <<"record_cost", gas_cost.gas>>, <<"run">>>>]

\* EvmPrecompileSet::execute for PrecompileSet
execute(self, code_address, input, record_ok) ==
    IF code_address \notin DOMAIN self THEN [ret |-> NotRegistered, events |-> <<>>]
    ELSE run_precompiled_contract(self[code_address], input, record_ok)

\* EvmPrecompileSet::is_precompile for PrecompileSet
is_precompile(self, address, remaining_gas) ==
    [is_precompile |-> address \in DOMAIN self, extra_cost |-> 0]

(***************************************************************************)
(* The calls made on a PrecompileSet: the handles the EVM passes in        *)
(***************************************************************************)

\* The longest tail of a modexp input after its three length words.
MaxRest == 4

\* The most pairs an input of the pairing holds.
MaxPairs == 5

\* Inputs fit for every contract.
GenericInputs == {<<>>, <<1>>, Word(1), Repeat(0, 192)}

\* Inputs of ecrecover: hash, v, r, s and what is cut from or added to them.
EcInput(hash, vword, r, s) == hash \o vword \o r \o s

VWords == {Word(27), Word(28), Word(0), Word(29), [Word(27) EXCEPT ![1] = 1], [Word(27) EXCEPT ![31] = 1]}

RValues == {Word(0), Word(2), Word(3), [SECP256K1N EXCEPT ![32] = 64], SECP256K1N, [SECP256K1N EXCEPT ![32] = 66]}

SValues == {Word(0), Word(1), [SECP256K1N EXCEPT ![32] = 64], SECP256K1N}

EcValid == EcInput(Repeat(9, 32), Word(28), Word(2), [SECP256K1N EXCEPT ![32] = 64])

EcrecoverInputs ==
    {EcInput(Repeat(9, 32), v, r, s) : v \in VWords, r \in RValues, s \in SValues}
    \cup {SubSeq(EcValid, 1, n) : n \in {63, 64, 96, 127}}
    \cup {EcValid \o <<1, 2, 3>>}

\* Byte strings over a set of bytes, of a length up to n.
RECURSIVE BytesUpTo(_, _)
BytesUpTo(S, n) ==
    IF n = 0 THEN {<<>>}
    ELSE LET shorter == BytesUpTo(S, n - 1) IN shorter \cup {<<b>> \o l : b \in S, l \in shorter}

\* Inputs of modexp: the three lengths and what follows them.
ModExpInput(base_len, exp_len, mod_len, rest) == Word(base_len) \o Word(exp_len) \o Word(mod_len) \o rest

ModExpInputs ==
    {ModExpInput(bl, el, ml, rest) : bl \in 0..2, el \in 0..2, ml \in 0..2, rest \in BytesUpTo({0, 3}, MaxRest)}
    \cup {ModExpInput(1, 33, 1, <<3>> \o Repeat(0, 31) \o <<1, 2>> \o <<5>>),
          ModExpInput(1, 33, 1, <<3>> \o Repeat(0, 31) \o <<1>>),
          ModExpInput(1, 33, 1, <<3, 1, 2>>),
          ModExpInput(1, 32, 1, <<3>> \o Repeat(0, 31)),
          ModExpInput(1, 32, 1, <<3>> \o Repeat(0, 31) \o <<2, 7>>),
          ModExpInput(33, 1, 1, <<>>),
          ModExpInput(1, 33, 33, <<3, 255>> \o Repeat(0, 32)),
          ModExpInput(1, 32, 33, <<3, 1>> \o Repeat(0, 31)),
          ModExpInput(1, 1, 33, <<3, 2>>),
          ModExpInput(2, 1, 32, <<3, 4, 5>> \o Repeat(0, 30) \o <<1, 1>>),
          [ModExpInput(1, 1, 1, <<3, 2, 5>>) EXCEPT ![1] = 1],
          [ModExpInput(1, 1, 1, <<3, 2, 5>>) EXCEPT ![33] = 1],
          [ModExpInput(1, 1, 1, <<3, 2, 5>>) EXCEPT ![65] = 1],
          Word(1) \o Word(1), Repeat(0, 95), Repeat(0, 96)}

\* Inputs of blake2f: rounds, h, m, t and f.
Blake2FInput(rounds, h, m, t, f) == <<0, 0, 0, rounds>> \o h \o m \o t \o <<f>>

\* The state of BLAKE2b-512 before the one block of the message "abc".
Blake2bInit ==
    <<72, 201, 189, 242, 103, 230, 9, 106, 59, 167, 202, 132, 133, 174, 103, 187,
      43, 248, 148, 254, 114, 243, 110, 60, 241, 54, 29, 95, 58, 245, 79, 165,
      209, 130, 230, 173, 127, 82, 14, 81, 31, 108, 62, 43, 140, 104, 5, 155,
      107, 189, 65, 251, 171, 217, 131, 31, 121, 33, 126, 19, 25, 205, 224, 91>>

Blake2FData ==
    {<<Repeat(0, 64), Repeat(0, 128), Repeat(0, 16)>>,
     <<Blake2bInit, <<97, 98, 99>> \o Repeat(0, 125), <<3>> \o Repeat(0, 15)>>}

Blake2FInputs ==
    {Blake2FInput(rounds, d[1], d[2], d[3], f) : rounds \in {0, 1, 2, 12}, d \in Blake2FData, f \in {0, 1, 2}}
    \cup {Repeat(0, 212), Repeat(0, 211) \o <<1>>, Repeat(0, 212) \o <<1, 0>>, Repeat(0, 214),
          Repeat(0, 212) \o <<2, 1>>, <<0, 0, 0, 1>>}

\* Inputs of the bn256 contracts.
G1Bytes(k) == G1Output(k)

G1Inputs ==
    {G1Bytes(k) : k \in -2..2}
    \cup {Word(1) \o Word(3), FqModulus \o Word(2), Word(1) \o FqModulus}

G2Bytes == G2Generator[1] \o G2Generator[2] \o G2Generator[3] \o G2Generator[4]

G2Inputs ==
    {Repeat(0, 128), G2Bytes, [G2Bytes EXCEPT ![128] = 171]}
    \cup {[i \in 1..128 |-> IF (i - 1) \div 32 = c THEN FqModulus[((i - 1) % 32) + 1] ELSE G2Bytes[i]] : c \in 0..3}

Pair(k) == G1Bytes(k) \o G2Bytes

PairInputs ==
    {a \o b : a \in G1Inputs, b \in G2Inputs}
    \cup {Pair(1) \o Pair(-1), Pair(1) \o Pair(1), Pair(2) \o Pair(-1) \o Pair(-1),
          Pair(1) \o Pair(-1) \o Pair(2) \o Pair(-2), Pair(1) \o Pair(-1) \o Pair(1) \o Pair(1),
          Concat([i \in 1..MaxPairs |-> Pair(0)]),
          Pair(1) \o Word(1) \o Word(3) \o G2Bytes,
          Repeat(0, 191), Repeat(0, 193), Pair(1) \o Pair(-1) \o <<0>>,
          Pair(1) \o Pair(-1) \o Pair(2) \o Pair(-2) \o <<0>>}

AddInputs ==
    {G1Bytes(a) \o G1Bytes(b) : a \in -1..1, b \in -1..1}
    \cup {G1Bytes(2) \o G1Bytes(-1), G1Bytes(2) \o G1Bytes(-2), G1Bytes(1), G1Bytes(1) \o G1Bytes(1) \o <<7>>,
          G1Bytes(1) \o Word(1) \o Word(3), FqModulus \o Word(2)}

MulInputs ==
    {G1Bytes(a) \o Word(k) : a \in -1..1, k \in 0..2}
    \cup {G1Bytes(2) \o Word(1), G1Bytes(-2) \o Word(0), G1Bytes(1), G1Bytes(1) \o Word(2) \o <<7>>,
          Word(1) \o Word(3) \o Word(1)}

\* The inputs a contract index is called with.
InputsOf(idx) ==
    GenericInputs \cup
    CASE idx = 1 -> EcrecoverInputs
      [] idx \in {2, 3, 4} -> {<<1, 2, 3>>, Repeat(7, 32), Repeat(7, 33), Repeat(7, 58)}
      [] idx = 5 -> ModExpInputs
      [] idx = 6 -> AddInputs
      [] idx = 7 -> MulInputs
      [] idx = 8 -> PairInputs
      [] idx = 9 -> Blake2FInputs
      [] OTHER -> {}

\* The handles: an address and the input it is called with.
Calls ==
    UNION {{<<Addr(i), input>> : input \in InputsOf(i)} : i \in 0..10}
    \cup {<<[Addr(1) EXCEPT ![1] = 1], input>> : input \in GenericInputs}

\* No call in progress.
NoHandle == [state |-> "none", profile |-> "berlin", code_address |-> Addr(0), input |-> <<>>, record_ok |-> TRUE]

NoReturn == [ret |-> NotRegistered, events |-> <<>>]

NoAnswer == [asked |-> FALSE, is_precompile |-> FALSE, extra_cost |-> 0]

PcInit ==
    /\ handle = NoHandle
    /\ exec_ret = NoReturn
    /\ is_ret = NoAnswer

(***************************************************************************)
(* Ethereum::calc_gas_limit and Ethereum::calc_base_fee (engines.rs).  A   *)
(* u64 near 2^64 is kept as the negative number it is congruent to modulo  *)
(* 2^64: -1 is u64::MAX.  The U256 of the base fee are far below 2^256     *)
(* here, so that no product or sum of them overflows.                      *)
(***************************************************************************)

GAS_LIMIT_BOUND_DIVISOR == 1024

MIN_GAS_LIMIT == 5000

ELASTICITY_MULTIPLIER == 2

BASE_FEE_CHANGE_DENOMINATOR == 8

\* What a call returned, or the panic it ended in.
Returned(val) == [kind |-> "Ok", val |-> val, msg |-> ""]
Panicked(msg) == [kind |-> "Panic", val |-> 0, msg |-> msg]

\* a < b for two u64
u64_lt(a, b) ==
    IF a < 0 /\ b >= 0 THEN FALSE
    ELSE IF a >= 0 /\ b < 0 THEN TRUE
    ELSE a < b

\* a + b and a - b for two u64 in a build without overflow checks: the sum
\* of a number below 2^63 and one near 2^64 wraps when it reaches 2^64.
u64_wrapping_add(a, b) == a + b
u64_wrapping_sub(a, b) == a - b

\* Ethereum::calc_gas_limit.  With overflow checks (a debug build) the
\* subtraction of 1 from parent_gas_limit / 1024 = 0 panics; without them
\* it wraps to u64::MAX, and so do the sum and the difference with it.
calc_gas_limit(parent_gas_limit, desired_limit_, overflow_checks) ==
    LET quotient == parent_gas_limit \div GAS_LIMIT_BOUND_DIVISOR
        delta == u64_wrapping_sub(quotient, 1)
        desired_limit == IF desired_limit_ < MIN_GAS_LIMIT THEN MIN_GAS_LIMIT ELSE desired_limit_
        raised == u64_wrapping_add(parent_gas_limit, delta)
        lowered == u64_wrapping_sub(parent_gas_limit, delta)
    IN  IF quotient = 0 /\ overflow_checks THEN Panicked("attempt to subtract with overflow")
        ELSE IF u64_lt(parent_gas_limit, desired_limit)
        THEN Returned(IF u64_lt(desired_limit, raised) THEN desired_limit ELSE raised)
        ELSE IF u64_lt(desired_limit, parent_gas_limit)
        THEN Returned(IF u64_lt(lowered, desired_limit) THEN desired_limit ELSE lowered)
        ELSE Returned(parent_gas_limit)

\* Ethereum::calc_base_fee
calc_base_fee(gas_limit, gas_used, base_fee) ==
    LET parent_gas_target == gas_limit \div ELASTICITY_MULTIPLIER
        up == (gas_used - parent_gas_target) * base_fee
        down == (parent_gas_target - gas_used) * base_fee
    IN  IF gas_used = parent_gas_target THEN Returned(base_fee)
        ELSE IF gas_used > parent_gas_target
        THEN IF parent_gas_target = 0 THEN Panicked("division by zero")
             ELSE LET num == (up \div parent_gas_target) \div BASE_FEE_CHANGE_DENOMINATOR
                      base_fee_delta == max(num, 1)
                  IN  Returned(base_fee_delta + base_fee)
        ELSE LET num == (down \div parent_gas_target) \div BASE_FEE_CHANGE_DENOMINATOR
             IN  IF num > base_fee THEN Panicked("arithmetic operation overflow")
                 ELSE Returned(max(base_fee - num, 0))

\* The largest gas limit and gas used calc_base_fee is called with.
MaxGas == 8

\* The base fees calc_base_fee is called with.
BaseFees == {0, 1, 7, 8, 9, 16, 100, 1000}

\* The gas limits calc_gas_limit is called with.
ParentGasLimits == {0, 1, 1023, 1024, 2047, 2048, 3000, 4999, 5000, 5001, 5120, 6000, 10240, 1000000}
DesiredGasLimits == {0, 1000, 4999, 5000, 5001, 5004, 5996, 6000, 10000, 10249, 10250, 999025, 2000000}

NoCalc == [fn |-> "none", args |-> <<>>, ret |-> Returned(0)]

EngineInit == calc = NoCalc

Init == BuilderInit /\ PoeInit /\ BatchInit /\ PobInit /\ PcInit /\ EngineInit

\* The lists a Poe is folded from in the specification of sign and recover.
SmallBatches ==
    {<<single_block(1, 0, 1, 1)>>, <<single_block(0, 0, 1, 0), single_block(1, 1, 0, 1)>>}

\* let p = Poe::single_block(..)
PoeSingleBlock(state_hash_, prev_state_root, new_state_root, withdrawal_root) ==
    /\ poe' = single_block(state_hash_, prev_state_root, new_state_root, withdrawal_root)
    /\ signs' = 0
    /\ signed_by' = NotSigned
    /\ recovered' = NotRecovered
    /\ UNCHANGED <<builderVars, batchVars, libraryVars>>

\* let p = Poe::default()
PoeDefault ==
    /\ poe' = Poe_default
    /\ signs' = 0
    /\ signed_by' = NotSigned
    /\ recovered' = NotRecovered
    /\ UNCHANGED <<builderVars, batchVars, libraryVars>>

\* let p = Poe::batch(batch_hash, list)?
PoeFromBatch(batch_hash, list) ==
    /\ batch(batch_hash, list).kind = "Ok"
    /\ poe' = batch(batch_hash, list).poe
    /\ signs' = 0
    /\ signed_by' = NotSigned
    /\ recovered' = NotRecovered
    /\ UNCHANGED <<builderVars, batchVars, libraryVars>>

\* p.sign(chain_id, prvkey)
PoeSign(chain_id, prvkey) ==
    /\ signs < MaxSigns
    /\ poe' = sign(poe, chain_id, prvkey)
    /\ signs' = signs + 1
    /\ signed_by' = [some |-> TRUE, chain_id |-> chain_id, prvkey |-> prvkey]
    /\ recovered' = NotRecovered
    /\ UNCHANGED <<builderVars, batchVars, libraryVars>>

\* p.recover(chain_id)
PoeRecover(chain_id) ==
    /\ recovered' = [some |-> TRUE, chain_id |-> chain_id, address |-> recover(poe, chain_id)]
    /\ UNCHANGED <<poe, signs, signed_by, builderVars, batchVars, libraryVars>>

\* The per-block Poes pushed on the list: single_block results, one of them
\* also signed, one with its batch_hash set.
BlockPoeInputs ==
    {single_block(h[1], prev, new, h[2]) : h \in {<<0, 1>>, <<1, 0>>}, prev \in Hashes, new \in Hashes}
    \cup {sign(single_block(1, 0, 1, 1), 1, "k1"), [single_block(0, 1, 0, 0) EXCEPT !.batch_hash = 1]}

\* block_poes.push(p)
BatchPush(p) ==
    /\ Len(block_poes) < MaxPoes
    /\ block_poes' = Append(block_poes, p)
    /\ batch_ret' = NoBatch
    /\ UNCHANGED <<builderVars, poeVars, libraryVars>>

\* block_poes.clear()
BatchClear ==
    /\ block_poes # <<>>
    /\ block_poes' = <<>>
    /\ batch_ret' = NoBatch
    /\ UNCHANGED <<builderVars, poeVars, libraryVars>>

\* Poe::batch(batch_hash, &block_poes)
Batch(batch_hash) ==
    /\ batch_ret' = batch(batch_hash, block_poes)
    /\ UNCHANGED <<block_poes, builderVars, poeVars, libraryVars>>

\* let mut pob = Pob::new(block, data)
PobNew(blk, data) ==
    /\ pob' = Pob_new(blk, data)
    /\ pob_ret' = NoHash
    /\ pob_first' = NoHash
    /\ UNCHANGED <<builderVars, poeVars, batchVars, pcVars, engineVars>>

\* let mut pob = Pob::from_proof(..)
PobFromProof(chain_id, blk, prev_state_root, block_hashes, codes, states) ==
    /\ pob' = from_proof(chain_id, blk, prev_state_root, block_hashes, codes, states)
    /\ pob_ret' = NoHash
    /\ pob_first' = NoHash
    /\ UNCHANGED <<builderVars, poeVars, batchVars, pcVars, engineVars>>

\* pob.data = data; pob.block = blk (both fields are public)
PobSetData(blk, data) ==
    /\ pob.state_hash.some
    /\ pob' = [pob EXCEPT !.block = blk, !.data = data]
    /\ UNCHANGED <<pob_ret, pob_first, builderVars, poeVars, batchVars, pcVars, engineVars>>

\* pob.state_hash()
PobStateHash ==
    /\ pob' = state_hash(pob).self
    /\ pob_ret' = SomeHash(state_hash(pob).ret)
    /\ pob_first' = IF pob_first.some THEN pob_first ELSE SomeHash(state_hash(pob).ret)
    /\ UNCHANGED <<builderVars, poeVars, batchVars, pcVars, engineVars>>

\* The EVM reaches a call and builds the handle of it.
Call(profile, code_address, input, record_ok) ==
    /\ handle.state = "none"
    /\ handle' = [state |-> "ready", profile |-> profile, code_address |-> code_address,
                  input |-> input, record_ok |-> record_ok]
    /\ UNCHANGED <<exec_ret, is_ret, builderVars, poeVars, batchVars, pobVars, engineVars>>

\* precompiles.is_precompile(handle.code_address(), gas)
IsPrecompile ==
    /\ handle.state = "ready"
    /\ ~is_ret.asked
    /\ is_ret' = LET r == is_precompile(PrecompileSetOf(handle.profile), handle.code_address, 0)
                 IN  [asked |-> TRUE, is_precompile |-> r.is_precompile, extra_cost |-> r.extra_cost]
    /\ UNCHANGED <<handle, exec_ret, builderVars, poeVars, batchVars, pobVars, engineVars>>

\* precompiles.execute(&mut handle)
Execute ==
    /\ handle.state = "ready"
    /\ exec_ret' = execute(PrecompileSetOf(handle.profile), handle.code_address, handle.input, handle.record_ok)
    /\ handle' = [handle EXCEPT !.state = "done"]
    /\ UNCHANGED <<is_ret, builderVars, poeVars, batchVars, pobVars, engineVars>>

\* The call is over and the handle dropped.
Return ==
    /\ handle.state = "done"
    /\ handle' = NoHandle
    /\ exec_ret' = NoReturn
    /\ is_ret' = NoAnswer
    /\ UNCHANGED <<builderVars, poeVars, batchVars, pobVars, engineVars>>

(***************************************************************************)
(* Specifications                                                          *)
(***************************************************************************)

SnapRoots == {StateRoot(snaps[i].statedb) : i \in 1..Len(snaps)}

\* A BlockBuilder and the calls made on it.
Next ==
    \/ \E tx \in Txs : Commit(tx)
    \/ \E tx_len \in 0..Len(receipts), state_root \in SnapRoots : TruncateAndRevert(tx_len, state_root)
    \/ \E flush_ok \in BOOLEAN : FinalizeHeader(flush_ok)
    \/ \E flush_ok \in BOOLEAN : Finalize(flush_ok)
    \/ \E list \in WithdrawalLists : Withdrawal(list)
    \/ \E list \in BuilderPrefetchLists, fail_at \in {-1, 0}, prefetcher_ok \in BOOLEAN :
          Prefetch(list, fail_at, prefetcher_ok)

Spec == Init /\ [][Next]_vars

\* A Poe that is built, signed and recovered from.
NextPoe ==
    \/ \E sh \in Hashes, prev \in Hashes, new \in Hashes, wr \in Hashes : PoeSingleBlock(sh, prev, new, wr)
    \/ PoeDefault
    \/ \E bh \in Hashes, list \in SmallBatches : PoeFromBatch(bh, list)
    \/ \E c \in ChainIds, k \in PrivateKeys : PoeSign(c, k)
    \/ \E c \in ChainIds : PoeRecover(c)

SpecPoe == Init /\ [][NextPoe]_vars

\* A list of per-block Poes that is folded into a batch Poe.
NextBatch ==
    \/ \E p \in BlockPoeInputs : BatchPush(p)
    \/ BatchClear
    \/ \E bh \in Hashes : Batch(bh)

SpecBatch == Init /\ [][NextBatch]_vars

\* A Pob that is built, hashed and written to.
NextPob ==
    \/ \E blk \in Blocks, data \in PobDataInputs : PobNew(blk, data)
    \/ \E blk \in Blocks, r \in PobDataRest, codes \in CodeMaps, states \in ProofInputs :
          PobFromProof(r.chain_id, blk, r.prev_state_root, r.block_hashes, codes, states)
    \/ \E blk \in Blocks, data \in PobDataInputs : PobSetData(blk, data)
    \/ PobStateHash

SpecPob == Init /\ [][NextPob]_vars

\* A PrecompileSet of either profile and the calls the EVM makes on it.
NextPrecompile ==
    \/ \E profile \in Profiles, c \in Calls, record_ok \in BOOLEAN : Call(profile, c[1], c[2], record_ok)
    \/ IsPrecompile
    \/ Execute
    \/ Return

SpecPrecompile == Init /\ [][NextPrecompile]_vars

\* Ethereum::calc_gas_limit(parent_gas_limit, desired_limit)
CalcGasLimit(parent_gas_limit, desired_limit, overflow_checks) ==
    /\ calc' = [fn |-> "calc_gas_limit", args |-> <<parent_gas_limit, desired_limit>>,
                ret |-> calc_gas_limit(parent_gas_limit, desired_limit, overflow_checks)]
    /\ UNCHANGED <<builderVars, poeVars, batchVars, pobVars, pcVars>>

\* Ethereum::calc_base_fee(gas_limit, gas_used, base_fee)
CalcBaseFee(gas_limit, gas_used, base_fee) ==
    /\ calc' = [fn |-> "calc_base_fee", args |-> <<gas_limit, gas_used, base_fee>>,
                ret |-> calc_base_fee(gas_limit, gas_used, base_fee)]
    /\ UNCHANGED <<builderVars, poeVars, batchVars, pobVars, pcVars>>

\* The two functions of the engine, called with any arguments.
NextEngine ==
    \/ \E p \in ParentGasLimits, d \in DesiredGasLimits, overflow_checks \in BOOLEAN : CalcGasLimit(p, d, overflow_checks)
    \/ \E gas_limit \in 0..MaxGas, gas_used \in 0..MaxGas, base_fee \in BaseFees : CalcBaseFee(gas_limit, gas_used, base_fee)

SpecEngine == Init /\ [][NextEngine]_vars

\* A builder over a StateDB that holds part of the state: at most one commit
\* (of a transfer from "a"), then one prefetch.
PrefetchInit ==
    /\ \E local \in LocalStates : (local.codes \subseteq local.accounts) /\ BuilderInitOn(local)
    /\ PoeInit /\ BatchInit /\ PobInit /\ PcInit /\ EngineInit

NextPrefetch ==
    \/ \E tx \in Txs : calls = 0 /\ tx.sender = "a" /\ tx.nonce = 0 /\ tx.value = 1 /\ Commit(tx)
    \/ \E list \in TupleLists(MaxTuples), fail_at \in -1..(MaxTuples - 1), prefetcher_ok \in BOOLEAN :
          op # "prefetch" /\ Prefetch(list, fail_at, prefetcher_ok)

SpecPrefetch == PrefetchInit /\ [][NextPrefetch]_vars

\* A builder on which transactions are committed and truncated, with lengths
\* within and beyond the receipts; nothing is called after a panic.
MaxBeyond == 2

NextTruncate ==
    \/ \E tx \in Txs : ret.kind # "Panic" /\ Commit(tx)
    \/ \E tx_len \in 0..Len(receipts), state_root \in SnapRoots :
          ret.kind # "Panic" /\ TruncateAndRevert(tx_len, state_root)
    \/ \E tx_len \in (Len(receipts) + 1)..(Len(receipts) + MaxBeyond), state_root \in SnapRoots :
          ret.kind # "Panic" /\ TruncateBeyond(tx_len, state_root)

SpecTruncate == Init /\ [][NextTruncate]_vars

(***************************************************************************)
(* The builder's gas accounting                                            *)
(***************************************************************************)

\* C1: in every state of a builder reached by commit (successful or not),
\* truncate_and_revert within the receipts, withdrawal, prefetch and
\* finalize_header calls, cumulative_gas_used is the sum of gas_used over the
\* receipts the builder holds.
C1_GasPoolConsistency == cumulative_gas_used = SumGasUsed(receipts)

\* A transaction was committed again after a truncate_and_revert, on a
\* builder that has seen a withdrawal, and the builder holds two receipts.
C1_Witness ==
    /\ replay.active
    /\ op = "commit" /\ ret.kind = "Ok"
    /\ withdrawals.some
    /\ Len(receipts) >= 2
    /\ cumulative_gas_used > receipts[1].gas_used

\* C2: every receipt's cumulative_gas_used is the sum of gas_used over the
\* receipts up to and including it.
C2_ReceiptPrefixSum ==
    \A i \in 1..Len(receipts) : receipts[i].cumulative_gas_used = SumGasUsed(SubSeq(receipts, 1, i))

\* C3: commit(tx) with tx.gas_limit above the remaining pool returns
\* NotEnoughGasLimit with the pool and the limit and changes nothing of the
\* builder; with tx.gas_limit equal to the pool it does not return
\* NotEnoughGasLimit.
C3_NotEnoughGasLimit ==
    [][\A tx \in Txs :
         LET remaining == IF header.gas_limit >= cumulative_gas_used
                          THEN header.gas_limit - cumulative_gas_used ELSE 0
         IN  Commit(tx) =>
               /\ tx.gas_limit > remaining =>
                    /\ ret' = [kind |-> "Err",
                               err |-> [kind |-> "NotEnoughGasLimit", gas_pool |-> remaining,
                                        gas_limit |-> tx.gas_limit]]
                    /\ UNCHANGED <<txs, receipts, cumulative_gas_used, header, withdrawals, statedb>>
               /\ tx.gas_limit = remaining =>
                    ~(ret'.kind = "Err" /\ ret'.err.kind = "NotEnoughGasLimit")]_vars

\* A commit on a builder that holds a transaction was refused for its gas
\* limit, which is above the pool.
C3_Witness ==
    /\ op = "commit" /\ ret.kind = "Err" /\ ret.err.kind = "NotEnoughGasLimit"
    /\ ret.err.gas_limit > ret.err.gas_pool
    /\ ret.err.gas_pool = header.gas_limit - cumulative_gas_used
    /\ Len(txs) >= 1

\* C4: a commit that fails appends no transaction and no receipt and leaves
\* cumulative_gas_used; a commit that succeeds gets the number of transactions
\* the builder holds as its index, so failed calls do not shift it.
C4_FailedCommit ==
    [][\A tx \in Txs :
         Commit(tx) =>
           /\ ret'.kind = "Err" => UNCHANGED <<txs, receipts, cumulative_gas_used>>
           /\ ret'.kind = "Ok" =>
                /\ ret'.receipt.transaction_index = Len(txs)
                /\ Len(txs') = Len(txs) + 1]_vars

\* A commit failed in the executor on a builder that holds a transaction.
C4_Witness ==
    /\ op = "commit" /\ ret.kind = "Err" /\ ret.err.kind = "Execute"
    /\ Len(txs) >= 1

(***************************************************************************)
(* truncate_and_revert                                                     *)
(***************************************************************************)

\* C5: after truncate_and_revert(n, root) with root the state root right
\* after the n-th commit, the builder has the txs, the receipts, the
\* cumulative_gas_used, the StateDB state and the stored withdrawals it had
\* right after that commit.
C5_TruncateRestores ==
    [][\A n \in 0..Len(receipts) :
         TruncateAndRevert(n, StateRoot(snaps[n + 1].statedb)) =>
           /\ txs' = snaps[n + 1].txs
           /\ receipts' = snaps[n + 1].receipts
           /\ cumulative_gas_used' = snaps[n + 1].cumulative_gas_used
           /\ statedb' = snaps[n + 1].statedb
           /\ withdrawals' = snaps[n + 1].withdrawals]_vars

\* C6: after commits alone, truncate_and_revert(n, root after n commits) and
\* the truncated transactions committed again in their order, each of these
\* commits succeeds and, after the last, the state root, cumulative_gas_used
\* and the number of receipts are what they were before the truncate.
C6_ReplayRestores ==
    replay.active =>
        /\ op = "commit" => ret.kind = "Ok"
        /\ Len(txs) = Len(replay.txs) =>
             /\ txs = replay.txs
             /\ StateRoot(statedb) = replay.state_root
             /\ cumulative_gas_used = replay.cumulative_gas_used
             /\ Len(receipts) = replay.receipts_len

\* Two transactions were truncated and both were committed again.
C6_Witness ==
    /\ replay.active
    /\ op = "commit"
    /\ Len(txs) = Len(replay.txs)
    /\ Len(txs) >= replay.tx_len + 2

(***************************************************************************)
(* Finalisation and order                                                  *)
(***************************************************************************)

\* C7: when finalize_header or finalize has succeeded, header.gas_used is
\* cumulative_gas_used, which is the sum of gas_used over the receipts (those
\* of the block, for finalize), and header.state_root is the root of the
\* state that was flushed.
C7_FinalizedHeader ==
    (op \in {"finalize_header", "finalize"} /\ ret.kind = "Ok") =>
        /\ header.gas_used = cumulative_gas_used
        /\ header.gas_used = SumGasUsed(receipts)
        /\ header.state_root = StateRoot(statedb)
        /\ op = "finalize_header" => ret.header = header
        /\ op = "finalize" =>
             /\ ret.block.header = header
             /\ ret.block.receipts = receipts
             /\ ret.block.header.gas_used = SumGasUsed(ret.block.receipts)

\* A block of two receipts was finalized by a builder that had been
\* truncated to one.
C7_Witness ==
    /\ op = "finalize" /\ ret.kind = "Ok"
    /\ Len(ret.block.receipts) >= 2
    /\ replay.active /\ replay.tx_len = 1

\* C8: txs and receipts have the same length; the i-th receipt carries the
\* hash of the i-th transaction and the index i (from 0); and the first i
\* transactions are the transactions the builder held right after the commit
\* that appended the i-th.
C8_TxsAndReceipts ==
    /\ Len(txs) = Len(receipts)
    /\ Len(snaps) = Len(txs) + 1
    /\ \A i \in 1..Len(receipts) :
         /\ receipts[i].transaction_hash = TxHash(txs[i])
         /\ receipts[i].transaction_index = i - 1
         /\ snaps[i + 1].txs = SubSeq(txs, 1, i)

\* A transaction is committed after a truncate_and_revert that dropped
\* another one, and the builder holds two.
C8_Witness ==
    /\ replay.active
    /\ op = "commit" /\ ret.kind = "Ok"
    /\ Len(txs) = 2
    /\ replay.tx_len = 1

(***************************************************************************)
(* Poe                                                                     *)
(***************************************************************************)

\* C9: recover(c) on a Poe whose last sign call was sign(c, k) returns the
\* Ethereum address of k.
C9_SignRecover ==
    (recovered.some /\ signed_by.some /\ recovered.chain_id = signed_by.chain_id) =>
        recovered.address = eth_accountid(signed_by.prvkey)

\* The pairs of neighbours in the list whose roots do not continue, by the
\* index (from 0) of the second of the pair.
Mismatches(list) ==
    {i \in 1..(Len(list) - 1) : list[i + 1].prev_state_root # list[i].new_state_root}

SetMin(S) == CHOOSE x \in S : \A y \in S : x <= y

\* C10: Poe::batch fails exactly when the list is empty or two neighbours do
\* not continue; then the error names the smallest index at which they do
\* not; a list of one never fails.
C10_BatchErrors ==
    batch_ret.kind # "None" =>
        /\ batch_ret.kind = "Err" <=> (block_poes = <<>> \/ Mismatches(block_poes) # {})
        /\ block_poes = <<>> => batch_ret.err.msg = "length of block poe is zero"
        /\ (block_poes # <<>> /\ Mismatches(block_poes) # {}) =>
             /\ batch_ret.err.msg = "unexpected state_root in poe"
             /\ batch_ret.err.idx = SetMin(Mismatches(block_poes))
        /\ Len(block_poes) = 1 => batch_ret.kind = "Ok"

\* batch failed on a list of three in which neither pair continues.
C10_Witness ==
    /\ batch_ret.kind = "Err"
    /\ Len(block_poes) = 3
    /\ Mismatches(block_poes) = {1, 2}
    /\ batch_ret.err.idx = 1

\* A Poe with the fields batch leaves out of account made the same.
Scrubbed(p) == [p EXCEPT !.batch_hash = SH256_default, !.signature = ZeroSignature]

\* C11: when Poe::batch(batch_hash, poes) succeeds, the result has the
\* prev_state_root of the first element, the new_state_root and the
\* withdrawal_root of the last, the batch_hash of the argument, the keccak of
\* the elements' state_hash values in list order as state_hash and a zero
\* signature; the batch_hash and signature of the elements do not change the
\* result, and the list is as it was.
C11_BatchResult ==
    [][\A bh \in Hashes :
         (Batch(bh) /\ batch_ret'.kind = "Ok") =>
            LET n == Len(block_poes)
                r == batch_ret'.poe
            IN  /\ n >= 1
                /\ r.prev_state_root = block_poes[1].prev_state_root
                /\ r.new_state_root = block_poes[n].new_state_root
                /\ r.withdrawal_root = block_poes[n].withdrawal_root
                /\ r.batch_hash = bh
                /\ r.state_hash = keccak_encode([i \in 1..n |-> block_poes[i].state_hash])
                /\ r.signature = ZeroSignature
                /\ batch_ret' = batch(bh, [i \in 1..n |-> Scrubbed(block_poes[i])])
                /\ block_poes' = block_poes]_vars

\* batch succeeded on a list of three that holds a signed Poe and a Poe
\* with a batch_hash of its own.
C11_Witness ==
    /\ batch_ret.kind = "Ok"
    /\ Len(block_poes) = 3
    /\ \E i \in 1..3 : block_poes[i].signature # ZeroSignature
    /\ \E i \in 1..3 : block_poes[i].batch_hash # SH256_default
    /\ batch_ret.poe.batch_hash = 1

(***************************************************************************)
(* Pob                                                                     *)
(***************************************************************************)

\* The nodes of a list, as a set.
NodeSet(l) == {l[i] : i \in 1..Len(l)}

\* C12: the first state_hash() call returns the same hash on every two Pobs
\* whose mpt_nodes lists hold the same set of nodes, be one a permutation of
\* the other or the same nodes with some of them repeated.
C12_SameNodesSameHash ==
    [][(PobStateHash /\ ~pob.state_hash.some) =>
         \A other \in NodeLists :
            NodeSet(other) = NodeSet(pob.data.mpt_nodes) =>
               state_hash(Pob_new(pob.block, [pob.data EXCEPT !.mpt_nodes = other])).ret = pob_ret'.hash]_vars

\* The part of C12 about permutations: lists that hold the same nodes the
\* same number of times hash alike.
C12_PermutationsHashAlike ==
    [][(PobStateHash /\ ~pob.state_hash.some) =>
         \A other \in NodeLists :
            (\A x \in Nodes :
                Cardinality({i \in 1..Len(other) : other[i] = x})
                  = Cardinality({i \in 1..Len(pob.data.mpt_nodes) : pob.data.mpt_nodes[i] = x})) =>
               state_hash(Pob_new(pob.block, [pob.data EXCEPT !.mpt_nodes = other])).ret = pob_ret'.hash]_vars

\* C13: the first state_hash() call after Pob::new or Pob::from_proof
\* returns a hash fixed by data.mpt_nodes alone and caches it; every later
\* call returns that hash, whatever was written to the Pob in between.
C13_HashCached ==
    [][PobStateHash =>
         IF pob_first.some
         THEN pob_ret' = pob_first /\ pob'.state_hash = pob_first
         ELSE /\ ~pob.state_hash.some
              /\ pob_ret'.hash =
                   state_hash(Pob_new("blk1", [PobData_default EXCEPT !.mpt_nodes = pob.data.mpt_nodes])).ret
              /\ pob'.state_hash = pob_ret'
              /\ pob_first' = pob_ret']_vars

\* state_hash was called again on a Pob whose nodes were replaced after the
\* first call, and returned the first hash, which is not the hash of the
\* nodes the Pob holds now.
C13_Witness ==
    /\ pob_first.some /\ pob_ret = pob_first
    /\ pob.state_hash = pob_first
    /\ pob.data.chain_id = 2
    /\ pob_first.hash # keccak_encode(Concat(sort_unstable(pob.data.mpt_nodes)))

(***************************************************************************)
(* Precompiled contracts                                                   *)
(***************************************************************************)

\* The contract the handle calls, for a handle of a registered address.
Called == PrecompileSetOf(handle.profile)[handle.code_address]

\* Whether the call of the name is among the calls execute made.
Made(events, name) == \E i \in 1..Len(events) : events[i][1] = name

DeclaredAbove(input, limit) ==
    \E k \in 0..2 :
        LET word == Slice(PadTo(input, 96), 32 * k, 32 * k + 32)
        IN  (\E i \in 1..31 : word[i] # 0) \/ word[32] > limit

\* What execute of the other profile returns for the call of the handle.
OtherProfile ==
    execute(PrecompileSetOf(IF handle.profile = "berlin" THEN "scroll" ELSE "berlin"),
            handle.code_address, handle.input, handle.record_ok)

ByteAt(input, k) == IF k < Len(input) THEN input[k + 1] ELSE 0

\* The 32 bytes from byte k of an input that is read as filled with zeros.
WordAt(input, k) == [i \in 1..32 |-> ByteAt(input, k + i - 1)]

\* What makes ecrecover return no address: v is neither 27 nor 28, a byte of
\* input[32..63] is not zero, r or s is zero or not below the order of the
\* curve, or no public key is recovered.
EcrecoverRejects(input) ==
    LET r == WordAt(input, 64)
        s == WordAt(input, 96)
    IN  \/ ByteAt(input, 63) \notin {27, 28}
        \/ \E k \in 32..62 : ByteAt(input, k) # 0
        \/ IsZero(r) \/ r = SECP256K1N \/ BytesLess(SECP256K1N, r)
        \/ IsZero(s) \/ s = SECP256K1N \/ BytesLess(SECP256K1N, s)
        \/ ~secp256k1_ecdsa_recover(r \o s \o <<ByteAt(input, 63)>>, WordAt(input, 0)).some

\* C16: ecrecover costs 3000 gas and succeeds on an input of any length; its
\* output is empty when v = input[63] is neither 27 nor 28, a byte of
\* input[32..63] is not zero, r or s is zero or at least SECP256K1N, or the
\* recovery fails, and is 32 bytes with the first 12 zero otherwise.
C16_Ecrecover ==
    [][Execute /\ handle.code_address = Addr(1) =>
        LET out == run(Called, handle.input)
        IN  /\ required_gas(Called, handle.input) = GasOk(3000)
            /\ exec_ret'.events[2] = <<"record_cost", 3000>>
            /\ out.kind = "Ok"
            /\ handle.record_ok => exec_ret'.ret = out
            /\ IF EcrecoverRejects(handle.input)
               THEN out.output = <<>>
               ELSE /\ Len(out.output) = 32
                    /\ \A i \in 1..12 : out.output[i] = 0
    ]_vars

\* An input of 127 bytes, with every check passed by the bytes it has and
\* the zero that fills it, returned an address.
C16_Witness ==
    /\ handle.state = "done"
    /\ handle.code_address = Addr(1)
    /\ Len(handle.input) = 127
    /\ ~EcrecoverRejects(handle.input)
    /\ exec_ret.ret.kind = "Ok"
    /\ Len(exec_ret.ret.output) = 32

\* The three lengths of an input of modexp are numbers below 2^31.
LengthsReadable(input) ==
    \A k \in 0..2 : (\A i \in 0..27 : ByteAt(input, 32 * k + i) = 0) /\ ByteAt(input, 32 * k + 28) < 128

\* Length k of an input of modexp: 0 for the base, 1 for the exponent, 2 for
\* the modulus.
DeclaredLen(input, k) == FromBytesBE(WordAt(input, 32 * k))

\* The len bytes from byte k of an input that is read as filled with zeros.
BytesAt(input, k, len) == [i \in 1..len |-> ByteAt(input, k + i - 1)]

\* What modexp is to return: mod_len bytes, zero when the modulus is 0 or 1,
\* base^exp mod m with zeros before it otherwise.
ModExpExpected(input) ==
    LET base_len == DeclaredLen(input, 0)
        exp_len == DeclaredLen(input, 1)
        mod_len == DeclaredLen(input, 2)
        m == FromBytesBE(BytesAt(input, 96 + base_len + exp_len, mod_len))
        b == FromBytesMod(BytesAt(input, 96, base_len), m)
        e == FromBytesBE(BytesAt(input, 96 + base_len, exp_len))
        number == to_bytes_be(PowMod(b, e, m))
    IN  IF m = 0 \/ m = 1 THEN Repeat(0, mod_len)
        ELSE Repeat(0, mod_len - Len(number)) \o number

\* A call of modexp with lengths that are read and within the limit of the
\* profile.
ModExpRuns ==
    /\ Execute
    /\ handle.code_address = Addr(5)
    /\ LengthsReadable(handle.input)
    /\ ~(handle.profile = "scroll" /\ DeclaredAbove(handle.input, 32))

\* C17: run of modexp, with no limit of the profile breached, succeeds with
\* exactly mod_len bytes: zero bytes when the modulus is 0 or 1 (mod_len 0
\* with a base_len that is not 0 and a modulus past the end of the input
\* included), base^exp mod m with zeros before it otherwise.
C17_ModExpRun ==
    [][ModExpRuns => run(Called, handle.input) = PrecompileOk(ModExpExpected(handle.input))]_vars

\* C17, for the inputs other than those with mod_len 0 and a base_len that
\* is not 0: run returns the mod_len bytes.
C17_ModExpRunWithModulus ==
    [][ModExpRuns /\ ~(DeclaredLen(handle.input, 2) = 0 /\ DeclaredLen(handle.input, 0) # 0) =>
        /\ run(Called, handle.input) = PrecompileOk(ModExpExpected(handle.input))
        /\ Len(run(Called, handle.input).output) = DeclaredLen(handle.input, 2)
    ]_vars

\* A call of modexp with mod_len 0 and base_len 1 ended in the panic of the
\* assertion on the length of the result.
C17_AssertionFails ==
    /\ handle.state = "done"
    /\ handle.code_address = Addr(5)
    /\ LengthsReadable(handle.input)
    /\ DeclaredLen(handle.input, 2) = 0
    /\ DeclaredLen(handle.input, 0) = 1
    /\ exec_ret.ret = Panic("assertion failed: result.len() <= modulus_length")

\* The gas of EIP-2565 for an input of modexp that is read as filled with
\* zeros: max(200, floor(ceil(max(mod_len, base_len) / 8)^2 *
\* max(adj_exp_len, 1) / 3)), with adj_exp_len = 8 * max(0, exp_len - 32) +
\* (max(bits(exp_head), 1) - 1) and exp_head the first min(32, exp_len)
\* bytes of the exponent.
ModExpGasExpected(input) ==
    LET base_len == DeclaredLen(input, 0)
        exp_len == DeclaredLen(input, 1)
        mod_len == DeclaredLen(input, 2)
        exp_head == BytesAt(input, 96 + base_len, IF exp_len < 32 THEN exp_len ELSE 32)
        adj_exp_len == 8 * max(0, exp_len - 32) + (max(bits(exp_head), 1) - 1)
        words == (max(mod_len, base_len) + 7) \div 8
    IN  max(200, (words * words * max(adj_exp_len, 1)) \div 3)

\* The input of modexp ends inside the first min(32, exp_len) bytes of the
\* exponent: after the base, before the end of that window.
EndsInExponentWindow(input) ==
    LET base_len == DeclaredLen(input, 0)
        exp_len == DeclaredLen(input, 1)
    IN  /\ Len(input) > 96 + base_len
        /\ Len(input) < 96 + base_len + (IF exp_len < 32 THEN exp_len ELSE 32)

\* C18: required_gas of modexp is max(200, floor(ceil(max(mod_len,
\* base_len) / 8)^2 * max(adj_exp_len, 1) / 3)) for every input, the missing
\* bytes read as zero: also for an input shorter than 96 bytes and for one
\* that ends in the middle of the first 32 bytes of the exponent.
C18_ModExpGas ==
    [][Execute /\ handle.code_address = Addr(5) /\ LengthsReadable(handle.input) =>
        required_gas(Called, handle.input) = GasOk(ModExpGasExpected(handle.input))
    ]_vars

\* C18, for the inputs that do not end inside the first 32 bytes of the
\* exponent: required_gas is the gas of the formula, never below 200, and
\* it is what execute charges.
C18_ModExpGasOutsideWindow ==
    [][Execute /\ handle.code_address = Addr(5) /\ LengthsReadable(handle.input)
       /\ ~EndsInExponentWindow(handle.input) =>
        /\ required_gas(Called, handle.input) = GasOk(ModExpGasExpected(handle.input))
        /\ ModExpGasExpected(handle.input) >= 200
        /\ exec_ret'.events[2] = <<"record_cost", ModExpGasExpected(handle.input)>>
    ]_vars

\* A call of modexp with an input that ends inside the first bytes of the
\* exponent ended in the panic of the slice, with no gas charged.
C18_SliceOutOfRange ==
    /\ handle.state = "done"
    /\ handle.code_address = Addr(5)
    /\ LengthsReadable(handle.input)
    /\ EndsInExponentWindow(handle.input)
    /\ exec_ret.ret = Panic("range end index out of range for slice")
    /\ exec_ret.events = <<<<"required_gas">>>>

\* A call of modexp with an exponent of 33 bytes, the first of them 255,
\* and a modulus of 33 bytes was charged 25 * 263 / 3 gas.
C18_Witness ==
    /\ handle.state = "done"
    /\ handle.code_address = Addr(5)
    /\ handle.input = ModExpInput(1, 33, 33, <<3, 255>> \o Repeat(0, 32))
    /\ exec_ret.events[2] = <<"record_cost", 2191>>

\* C19: run of blake2f returns Error Other("Invalid input for blake2f
\* precompile: incorrect length") for an input that is not 213 bytes long,
\* Error Other("Invalid input for blake2f precompile: incorrect final flag")
\* for 213 bytes with a byte 212 that is neither 0 nor 1, and succeeds with
\* an output of 64 bytes otherwise.
C19_Blake2F ==
    [][Execute /\ handle.profile = "berlin" /\ handle.code_address = Addr(9) /\ handle.record_ok =>
        IF Len(handle.input) # 213
        THEN exec_ret'.ret = [kind |-> "Error", output |-> <<>>,
                              msg |-> "Invalid input for blake2f precompile: incorrect length"]
        ELSE IF handle.input[213] \notin {0, 1}
        THEN exec_ret'.ret = [kind |-> "Error", output |-> <<>>,
                              msg |-> "Invalid input for blake2f precompile: incorrect final flag"]
        ELSE /\ exec_ret'.ret.kind = "Ok"
             /\ Len(exec_ret'.ret.output) = 64
             /\ \A i \in 1..64 : exec_ret'.ret.output[i] \in 0..255
    ]_vars

\* The 12 rounds over the one block of "abc", with the final flag 1,
\* returned the 64 bytes of BLAKE2b-512("abc"): ba80a53f 981c4d0d ...
\* d4009923.
C19_Witness ==
    /\ handle.state = "done"
    /\ handle.profile = "berlin"
    /\ handle.code_address = Addr(9)
    /\ handle.input = Blake2FInput(12, Blake2bInit, <<97, 98, 99>> \o Repeat(0, 125), <<3>> \o Repeat(0, 15), 1)
    /\ exec_ret.ret.kind = "Ok"
    /\ Len(exec_ret.ret.output) = 64
    /\ SubSeq(exec_ret.ret.output, 1, 8) = <<186, 128, 165, 63, 152, 28, 77, 13>>
    /\ SubSeq(exec_ret.ret.output, 61, 64) = <<212, 0, 153, 35>>

\* The multiple of the generator of G1 the first 64 bytes of element idx of
\* an input of the pairing are, and the multiple of the generator of G2
\* its other 128 bytes are.
PairA(input, idx) == CHOOSE k \in -2..2 : SubSeq(input, 192 * idx + 1, 192 * idx + 64) = G1Bytes(k)
PairB(input, idx) == IF SubSeq(input, 192 * idx + 65, 192 * idx + 192) = G2Bytes THEN 1 ELSE 0

\* The product of the pairings of the first n elements of an input, as the
\* power of e(G1, G2) it is: 0 for the identity.
RECURSIVE PairingProduct(_, _)
PairingProduct(input, n) ==
    IF n = 0 THEN 0 ELSE PairingProduct(input, n - 1) + PairA(input, n - 1) * PairB(input, n - 1)

\* C20: run of the bn256 pairing returns the 32 bytes of 1 for the empty
\* input, an error for an input whose length is not a multiple of 192 and,
\* with a limit c on the number of pairs, for an input longer than c * 192
\* bytes; a result that succeeds is 32 bytes that encode 0 or 1, and 1 when
\* and only when the product of the pairings is the identity.  required_gas
\* is 45000 + 34000 * floor(len / 192) for every input.
C20_Pairing ==
    [][Execute /\ handle.code_address = Addr(8) =>
        LET len == Len(handle.input)
            out == exec_ret'.ret
        IN  /\ required_gas(Called, handle.input) = GasOk(45000 + 34000 * (len \div 192))
            /\ exec_ret'.events[2] = <<"record_cost", 45000 + 34000 * (len \div 192)>>
            /\ handle.record_ok =>
                  /\ len = 0 => out = PrecompileOk(Repeat(0, 31) \o <<1>>)
                  /\ len % 192 # 0 => out.kind = "Error"
                  /\ handle.profile = "scroll" /\ len > 4 * 192 => out.kind = "Error"
                  /\ handle.profile = "berlin" /\ len % 192 = 0 /\ handle.input = Repeat(0, len) =>
                        out.kind = "Ok"
                  /\ out.kind = "Ok" =>
                        /\ Len(out.output) = 32
                        /\ \A i \in 1..31 : out.output[i] = 0
                        /\ out.output[32] \in {0, 1}
                        /\ out.output[32] = 1 <=> PairingProduct(handle.input, len \div 192) = 0
    ]_vars

\* Four pairs, the most scroll takes, with the product e(G, H) * e(-G, H) *
\* e(2G, H) * e(-2G, H): the call was charged 45000 + 4 * 34000 gas and
\* returned 1.
C20_Witness ==
    /\ handle.state = "done"
    /\ handle.profile = "scroll"
    /\ handle.code_address = Addr(8)
    /\ handle.input = Pair(1) \o Pair(-1) \o Pair(2) \o Pair(-2)
    /\ exec_ret.events[2] = <<"record_cost", 181000>>
    /\ exec_ret.ret = PrecompileOk(Repeat(0, 31) \o <<1>>)

\* The 64 bytes from byte pos of an input of bn256 add, filled with zeros
\* or cut to 128 bytes, are a point: both coordinates are below the modulus
\* of the field and are (0, 0) or the coordinates of a point of the curve.
EncodesPoint(input, pos) ==
    LET px == WordAt(SubSeq(input, 1, IF Len(input) < 128 THEN Len(input) ELSE 128), pos)
        py == WordAt(SubSeq(input, 1, IF Len(input) < 128 THEN Len(input) ELSE 128), pos + 32)
    IN  /\ BytesLess(px, FqModulus)
        /\ BytesLess(py, FqModulus)
        /\ \/ IsZero(px) /\ IsZero(py)
           \/ \E k \in DOMAIN G1Coordinates : G1Coordinates[k] = <<px, py>>

\* C21: run of bn256 add panics for no input, filled with zeros or cut to 128
\* bytes: when a coordinate of one of the two points is no element of the
\* field or the point is not on the curve, run succeeds with 64 zero bytes.
C21_AddNeverPanics ==
    [][Execute /\ handle.code_address = Addr(6) =>
        LET out == run(Called, handle.input)
        IN  /\ out.kind = "Ok"
            /\ Len(out.output) = 64
            /\ ~(EncodesPoint(handle.input, 0) /\ EncodesPoint(handle.input, 64)) =>
                  out.output = Repeat(0, 64)
    ]_vars

\* C21, for two points that are read: run succeeds with 64 bytes, and (0, 0)
\* is the identity of the group, so that a point added to it is returned.
C21_AddOfPoints ==
    [][Execute /\ handle.code_address = Addr(6)
       /\ EncodesPoint(handle.input, 0) /\ EncodesPoint(handle.input, 64) =>
        LET out == run(Called, handle.input)
            first == BytesAt(handle.input, 0, 64)
            second == BytesAt(handle.input, 64, 64)
        IN  /\ out.kind = "Ok"
            /\ Len(out.output) = 64
            /\ IsZero(first) => out.output = second
            /\ IsZero(second) => out.output = first
    ]_vars

\* A call of bn256 add with a second point (1, 3), which is not on the
\* curve, ended in the panic of the unwrap in read_point.
C21_UnwrapPanics ==
    /\ handle.state = "done"
    /\ handle.code_address = Addr(6)
    /\ handle.record_ok
    /\ EncodesPoint(handle.input, 0)
    /\ ~EncodesPoint(handle.input, 64)
    /\ exec_ret.ret = Panic("called Result::unwrap() on an Err value")

(***************************************************************************)
(* prefetch                                                                *)
(***************************************************************************)

\* The step is a call of prefetch; external' holds its arguments.
Prefetched == op' = "prefetch" /\ calls' = calls + 1

\* check_missing_state returned an error for a tuple of the list.
StateFailed(e) == e.fail_at \in 0..(Len(e.list) - 1)

\* The batch of a call of prefetch on the StateDB local.
BatchOf(local, e) == prefetch_loop(local, e.list, 0, e.fail_at, <<>>).out

\* The requests made for the tuples of an address: one for each tuple.
RequestsFor(local, list, addr) ==
    {fetch_of(list[i], check_missing_state(local, addr, list[i].storage_keys)) :
        i \in {j \in 1..Len(list) : list[j].address = addr}}

\* C22: for every list of access tuples given to prefetch, the batch holds
\* at most one request for an address, a later tuple of the address being
\* merged into it (the keys united, the code asked for if one of them asks);
\* StatePrefetcher::prefetch is called once when the batch is not empty and
\* not at all when it is; what it returns goes to apply_states; and the
\* number returned is the number of addresses of the batch.
C22_OneRequestPerAddress ==
    [][Prefetched /\ ~StateFailed(external') =>
        LET e == external'
            out == BatchOf(present, e)
            addrs == UNION {get_addr(out[i]) : i \in 1..Len(out)}
        IN  /\ \A i, j \in 1..Len(out) : i # j => get_addr(out[i]) # get_addr(out[j])
            /\ \A i \in 1..Len(out) : \A addr \in get_addr(out[i]) :
                  LET requests == RequestsFor(present, e.list, addr)
                  IN  /\ requests # {}
                      /\ out[i].code = UNION {r.code : r \in requests}
                      /\ out[i].access_list =
                            {AccessTuple(addr, UNION {t.storage_keys : t \in UNION {r.access_list : r \in requests}})}
            /\ e.fetched = IF out = <<>> THEN <<>> ELSE <<out>>
            /\ e.applied = IF out # <<>> /\ e.prefetcher_ok THEN <<out>> ELSE <<>>
            /\ (out = <<>> \/ e.prefetcher_ok) => ret' = [kind |-> "Ok", count |-> Cardinality(addrs)]
    ]_vars

\* Two tuples of the address "a", with the key k1 and with the key k2, on a
\* StateDB without the account: one request with both keys reached the
\* prefetcher and apply_states, and prefetch returned 1.
C22_Witness ==
    /\ op = "prefetch"
    /\ external.list = <<AccessTuple("a", {"k1"}), AccessTuple("a", {"k2"})>>
    /\ external.fetched = <<<<[code |-> {"a"}, access_list |-> {AccessTuple("a", {"k1", "k2"})}]>>>>
    /\ external.applied = external.fetched
    /\ ret = [kind |-> "Ok", count |-> 1]

\* The tuples of a list have addresses that differ, so that the request of
\* the batch at an index is the one built for the tuple at that index.
DistinctAddresses(list) == \A i, j \in 1..Len(list) : i # j => list[i].address # list[j].address

\* C26: the request prefetch builds for an access tuple (addr, keys) asks,
\* when the account is missing, for the code of addr and all the declared
\* keys; else, when the code is missing, for the code of addr; else only for
\* the storage keys that are missing, with no code and no key that is held
\* locally.
C26_RequestOfTuple ==
    [][Prefetched /\ ~StateFailed(external') /\ DistinctAddresses(external'.list) =>
        /\ Len(external'.fetched) = (IF external'.list = <<>> THEN 0 ELSE 1)
        /\ \A n \in 1..Len(external'.fetched) :
              /\ Len(external'.fetched[n]) = Len(external'.list)
              /\ \A i \in 1..Len(external'.list) :
                    LET item == external'.list[i]
                        request == external'.fetched[n][i]
                        asked == UNION {t.storage_keys : t \in request.access_list}
                        missing == {k \in item.storage_keys : <<item.address, k>> \notin present.storages}
                    IN  /\ \A t \in request.access_list : t.address = item.address
                        /\ IF item.address \notin present.accounts
                           THEN request.code = {item.address} /\ asked = item.storage_keys
                           ELSE IF item.address \notin present.codes
                           THEN request.code = {item.address} /\ asked = missing
                           ELSE request.code = {} /\ asked = missing
    ]_vars

\* The tuple ("a", {k1, k2}) on a StateDB that holds the account "a", its
\* code and its slot k1: the request asks for k2 alone and for no code.
C26_Witness ==
    /\ op = "prefetch"
    /\ external.list = <<AccessTuple("a", {"k1", "k2"})>>
    /\ external.fetched = <<<<[code |-> {}, access_list |-> {AccessTuple("a", {"k2"})}]>>>>
    /\ <<"a", "k1">> \in present.storages
    /\ external.applied = <<>>

\* C27: when check_missing_state returns an error for a tuple, prefetch
\* returns that error and calls neither StatePrefetcher::prefetch nor
\* apply_states, whatever tuples came before; when StatePrefetcher::prefetch
\* returns an error, prefetch returns it and apply_states is not called.  In
\* both cases txs, receipts and cumulative_gas_used stay as they were.
C27_PrefetchErrors ==
    [][Prefetched =>
        /\ StateFailed(external') =>
              /\ ret' = [kind |-> "Err", err |-> [kind |-> "State"]]
              /\ external'.fetched = <<>>
              /\ external'.applied = <<>>
              /\ present' = present
        /\ ~StateFailed(external') /\ external'.list # <<>> /\ ~external'.prefetcher_ok =>
              /\ ret' = [kind |-> "Err", err |-> [kind |-> "Prefetcher"]]
              /\ Len(external'.fetched) = 1
              /\ external'.applied = <<>>
              /\ present' = present
        /\ ret'.kind = "Err" =>
              /\ StateFailed(external') \/ ~external'.prefetcher_ok
              /\ txs' = txs /\ receipts' = receipts /\ cumulative_gas_used' = cumulative_gas_used
    ]_vars

\* After a commit, check_missing_state failed at the second tuple of a list:
\* prefetch returned the error, nothing reached the prefetcher, and the tx
\* and its receipt are still held.
C27_Witness ==
    /\ op = "prefetch"
    /\ Len(external.list) = 2
    /\ external.fail_at = 1
    /\ ret = [kind |-> "Err", err |-> [kind |-> "State"]]
    /\ external.fetched = <<>>
    /\ Len(txs) = 1 /\ Len(receipts) = 1 /\ cumulative_gas_used > 0

\* The account, the code and every listed storage key of a tuple are held
\* locally.
FullyPresent(local, item) ==
    /\ item.address \in local.accounts
    /\ item.address \in local.codes
    /\ \A k \in item.storage_keys : <<item.address, k>> \in local.storages

\* C28: a tuple whose account, code and listed storage keys are all held
\* locally adds no request to the batch: when every tuple given to prefetch
\* is such a tuple, prefetch returns 0 and calls neither
\* StatePrefetcher::prefetch nor apply_states.
C28_PresentTuplesAddNothing ==
    [][Prefetched /\ ~StateFailed(external')
       /\ (\A i \in 1..Len(external'.list) : FullyPresent(present, external'.list[i])) =>
        /\ ret' = [kind |-> "Ok", count |-> 0]
        /\ external'.fetched = <<>>
        /\ external'.applied = <<>>
    ]_vars

\* One tuple with everything held locally: prefetch handed the prefetcher a
\* request with no code and no key, and returned 1.
C28_EmptyRequestSent ==
    /\ op = "prefetch"
    /\ external.list = <<AccessTuple("b", {"k1"})>>
    /\ FullyPresent(present, external.list[1])
    /\ external.fetched = <<<<[code |-> {}, access_list |-> {AccessTuple("b", {})}]>>>>
    /\ external.applied = external.fetched
    /\ ret = [kind |-> "Ok", count |-> 1]

(***************************************************************************)
(* The gas limit and the base fee of the next header                       *)
(***************************************************************************)

\* The base fee as claimed, for a target that is not 0.
BaseFeeAsClaimed(gas_limit, gas_used, base_fee) ==
    LET target == gas_limit \div 2
    IN  IF gas_used = target THEN base_fee
        ELSE IF gas_used > target
        THEN LET increase == ((base_fee * (gas_used - target)) \div target) \div 8
             IN  base_fee + (IF increase < 1 THEN 1 ELSE increase)
        ELSE base_fee - ((base_fee * (target - gas_used)) \div target) \div 8

\* C23: Ethereum::calc_base_fee(gas_limit, gas_used, base_fee) returns a
\* value for every gas_limit, gas_used and base_fee: with target =
\* gas_limit / 2, base_fee when gas_used = target, base_fee + max(1,
\* base_fee * (gas_used - target) / target / 8) when gas_used is above it,
\* and base_fee - base_fee * (target - gas_used) / target / 8, which is not
\* below 0, when gas_used is below it.
C23_BaseFee ==
    calc.fn = "calc_base_fee" =>
        LET target == calc.args[1] \div 2
        IN  /\ calc.ret.kind = "Ok"
            /\ target # 0 => calc.ret.val = BaseFeeAsClaimed(calc.args[1], calc.args[2], calc.args[3])
            /\ calc.args[2] = target => calc.ret.val = calc.args[3]

\* C23, for a gas_limit of 2 or more: the value is the claimed one, above
\* base_fee when gas_used is above the target, and between 0 and base_fee
\* when it is below.
C23_BaseFeeWithTarget ==
    calc.fn = "calc_base_fee" /\ calc.args[1] >= 2 =>
        LET target == calc.args[1] \div 2
            gas_used == calc.args[2]
            base_fee == calc.args[3]
        IN  /\ calc.ret = Returned(BaseFeeAsClaimed(calc.args[1], gas_used, base_fee))
            /\ gas_used = target => calc.ret.val = base_fee
            /\ gas_used > target => calc.ret.val > base_fee
            /\ gas_used < target => calc.ret.val >= 0 /\ calc.ret.val <= base_fee

\* calc_base_fee(1, 1, 7): the target is 0, gas_used is above it, and the
\* call ended in the panic of a division by zero.
C23_DivisionByZero ==
    /\ calc.fn = "calc_base_fee"
    /\ calc.args = <<1, 1, 7>>
    /\ calc.ret = Panicked("division by zero")

\* calc_base_fee(8, 5, 7): one above the target of 4, where 7 * 1 / 4 / 8 is
\* 0 and the fee still grew by 1.
C23_Witness ==
    /\ calc.fn = "calc_base_fee"
    /\ calc.args = <<8, 5, 7>>
    /\ calc.ret = Returned(8)

\* |a - b|
Distance(a, b) == IF a < b THEN b - a ELSE a - b

\* What C24 says of a result of calc_gas_limit(parent, desired): it lies
\* between parent and max(desired, 5000), differs from parent by at most
\* parent / 1024 - 1, is max(desired, 5000) when that is as near to parent,
\* and is not below 5000.
GasLimitAsClaimed(parent, desired, limit) ==
    LET goal == IF desired < 5000 THEN 5000 ELSE desired
        delta == (parent \div 1024) - 1
    IN  /\ (parent <= limit /\ limit <= goal) \/ (goal <= limit /\ limit <= parent)
        /\ Distance(limit, parent) <= delta
        /\ Distance(goal, parent) <= delta => limit = goal
        /\ limit >= 5000

\* C24: for every parent and desired, Ethereum::calc_gas_limit(parent,
\* desired) lies between parent and max(desired, 5000), differs from parent
\* by at most parent / 1024 - 1, equals max(desired, 5000) when that is
\* within parent / 1024 - 1 of parent, and is never below MIN_GAS_LIMIT =
\* 5000.
C24_GasLimit ==
    calc.fn = "calc_gas_limit" =>
        /\ calc.ret.kind = "Ok"
        /\ GasLimitAsClaimed(calc.args[1], calc.args[2], calc.ret.val)

\* C24, for a parent of 5000 or more: the result is as claimed, in a build
\* with overflow checks and in one without.
C24_GasLimitOfParentAboveMin ==
    calc.fn = "calc_gas_limit" /\ calc.args[1] >= MIN_GAS_LIMIT =>
        /\ calc.ret.kind = "Ok"
        /\ GasLimitAsClaimed(calc.args[1], calc.args[2], calc.ret.val)

\* calc_gas_limit(3000, 5000) returned 3001, which is below 5000.
C24_BelowMinimum ==
    /\ calc.fn = "calc_gas_limit"
    /\ calc.args = <<3000, 5000>>
    /\ calc.ret = Returned(3001)

\* calc_gas_limit(1023, 5000), where parent / 1024 - 1 is below 0 for a
\* u64, ended in a panic.
C24_SubtractionOverflows ==
    /\ calc.fn = "calc_gas_limit"
    /\ calc.args = <<1023, 5000>>
    /\ calc.ret = Panicked("attempt to subtract with overflow")

\* calc_gas_limit(10240, 5000) went down by 10240 / 1024 - 1 = 9.
C24_Witness ==
    /\ calc.fn = "calc_gas_limit"
    /\ calc.args = <<10240, 5000>>
    /\ calc.ret = Returned(10231)

(***************************************************************************)
(* Withdrawals                                                             *)
(***************************************************************************)

\* The wei the first n entries of a withdrawal list give to the account x.
RECURSIVE Credited(_, _, _)
Credited(list, x, n) ==
    IF n = 0 THEN 0
    ELSE Credited(list, x, n - 1) + (IF list[n].address = x THEN list[n].amount * 1000000000 ELSE 0)

\* C25: withdrawal(list) adds amount * 10^9 to the balance of the address of
\* every entry of the list, an address listed twice being credited twice,
\* and stores that list; a second call credits again and puts its list in
\* the place of the first, so that the block of finalize carries the last
\* list alone.
C25_Withdrawals ==
    [][/\ op' = "withdrawal" /\ calls' = calls + 1 =>
            /\ ret'.kind = "Ok"
            /\ withdrawals'.some
            /\ withdrawals'.list \in WithdrawalLists
            /\ \A x \in Accounts :
                  statedb'.balance[x] = statedb.balance[x] + Credited(withdrawals'.list, x, Len(withdrawals'.list))
       /\ op' = "finalize" /\ calls' = calls + 1 /\ ret'.kind = "Ok" =>
            ret'.block.withdrawals = withdrawals
    ]_vars

\* After withdrawal([b: 1]) and then withdrawal([a: 1, a: 1]) both accounts
\* hold their credits, a twice 10^9, and the block of finalize carries the
\* second list.
C25_Witness ==
    /\ op = "finalize"
    /\ ret.kind = "Ok"
    /\ ret.block.withdrawals = Some(<<Wd("a", 1), Wd("a", 1)>>)
    /\ ret.block.transactions = <<>>
    /\ statedb.balance["a"] = 4 + 2000000000
    /\ statedb.balance["b"] = 1 + 1000000000


(***************************************************************************)
(* The block gas limit                                                     *)
(***************************************************************************)

\* C29: in every state of a builder, cumulative_gas_used is at most
\* header.gas_limit (no_gas_fee is false and every execution uses at most the
\* transaction's gas limit), so the pool header.gas_limit -
\* cumulative_gas_used is never cut off at 0 and the refunds of
\* truncate_and_revert never take cumulative_gas_used below 0.
C29_WithinGasLimit ==
    /\ ~no_gas_fee
    /\ \A i \in 1..Len(receipts) : receipts[i].gas_used <= txs[i].gas_limit
    /\ 0 <= cumulative_gas_used
    /\ cumulative_gas_used <= header.gas_limit
    /\ gas_pool_of(Self) = header.gas_limit - cumulative_gas_used

\* A block was filled to its gas limit, then truncated to no transaction,
\* and a transaction was committed again.
C29_Witness ==
    /\ op = "commit" /\ ret.kind = "Ok"
    /\ replay.active
    /\ replay.cumulative_gas_used = header.gas_limit
    /\ replay.tx_len = 0
    /\ cumulative_gas_used = receipts[1].gas_used

(***************************************************************************)
(* truncate_and_revert beyond the receipts                                 *)
(***************************************************************************)

\* C30: truncate_and_revert(n, root) with n above the number of receipts
\* panics and changes nothing: txs, receipts and cumulative_gas_used are as
\* before and the StateDB is not reverted.
C30_TruncateBeyondAborts ==
    [][\A n \in (Len(receipts) + 1)..(Len(receipts) + MaxBeyond), root \in SnapRoots :
         TruncateBeyond(n, root) =>
           /\ ret'.kind = "Panic"
           /\ txs' = txs
           /\ receipts' = receipts
           /\ cumulative_gas_used' = cumulative_gas_used
           /\ statedb' = statedb
           /\ withdrawals' = withdrawals]_vars

\* truncate_and_revert(3, root) panicked on a builder that holds two
\* receipts and whose state differs from the one it started with.
C30_Witness ==
    /\ op = "truncate_and_revert"
    /\ ret.kind = "Panic" /\ ret.start = 3 /\ ret.len = 2
    /\ Len(receipts) = 2 /\ Len(txs) = 2
    /\ cumulative_gas_used = receipts[1].gas_used + receipts[2].gas_used
    /\ statedb # InitStateDB

=============================================================================
